---------------------------- MODULE Spec2Model ----------------------------
(***************************************************************************)
(* Voice-signature scoring and content-matching pipeline of the           *)
(* personal-brand-dna AI pipeline (src/ai-pipeline).                       *)
(*                                                                         *)
(* Representation conventions                                              *)
(*  - A score (a Python float) is an integer number of hundredths:         *)
(*    0.3 is 30, 1.0 is 100.  Scale names the unit.                        *)
(*  - A dict is a TLA+ function whose DOMAIN is the set of its keys.       *)
(*  - A text (a Python str) is the sequence of its lexical tokens: every   *)
(*    maximal run of \w characters is one token (a TLA+ string), every     *)
(*    other character is a token of its own (" ", "\n", ".", "?", "#").    *)
(*    The text is the concatenation of its tokens; TextLen is len().       *)
(***************************************************************************)
EXTENDS Integers, Sequences, FiniteSets, TLC

VARIABLES
    \* VoiceAnalyzer._create_voice_signature called on its own
    analyses,            \* the *analyses tuple last passed to the fuser
    voice_signature,     \* the signature it returned
    fuse_done,           \* the fuser has been called
    \* VoiceAnalyzer._calculate_confidence_score called on a pair of inputs
    cs_sig,              \* the signature scored
    cs_lo,               \* [text_length, turns, score] of the smaller input
    cs_hi,               \* [text_length, turns, score] of the larger input
    cs_done,             \* the scorer has been called
    \* VoiceAnalyzer.analyze_voice, one call at a time
    av_pc,               \* position of the running call
    conversation_data,   \* its argument
    full_text,           \* combined transcription (line 66)
    av_partial,          \* mappings returned so far by the four analyzers
    av_steps,            \* helper calls executed by this call, in order
    av_failed,           \* the analyzers that failed or were unavailable
    av_response,         \* the provider's answer to the analysis prompt
    av_signature,        \* the fused signature (line 78)
    av_result,           \* what the call returned or raised
    nlp,                 \* VoiceAnalyzer.nlp is loaded
    av_client,           \* VoiceAnalyzer.openai_client is set
    \* ContentGenerator.generate_content, one call at a time
    gc_pc,               \* position of the running call
    gc_request,          \* its arguments
    gc_client,           \* ContentGenerator.openai_client is set
    gc_calls,            \* provider calls issued by this call, in order
    gc_responses,        \* the provider's answers to them, in order
    primary_content,     \* line 64
    variations,          \* the list built by _generate_variations
    gc_steps,            \* helper calls executed by this call, in order
    gc_result,           \* what the call returned or raised
    \* batch_generate_content and batch_transcribe, one call at a time
    batch_pc,            \* position of the running call
    batch_kind,          \* which of the two operations runs
    batch_requests,      \* its list argument
    batch_results,       \* per item: pending, or what its own call did
    batch_result,        \* what the batch call returned or raised
    \* TemplateManager.get_template_for_voice_profile called on its own
    tpl_signature,       \* the signature passed
    tpl_content_type,    \* the content type passed
    tpl_result,          \* the template returned
    tpl_done,            \* the selector has been called
    \* the two profile comparisons called on one pair of signatures
    cmp_profile1,        \* first signature
    cmp_profile2,        \* second signature
    cmp_profiles,        \* VoiceProfileComparison.compare_profiles' result
    cmp_voice,           \* VoiceAnalyzer.compare_voice_profiles' result
    cmp_done,            \* the comparisons have been called
    \* post-processing steps of ContentGenerator applied one after another
    pp_pc,               \* idle until a content is chosen
    pp_content,          \* the content as the steps have left it
    pp_content_type,     \* the content type of the request
    pp_industry,         \* the industry of the user profile
    pp_log,              \* the steps applied: operation, content before, after
    \* one VoiceProfile and the operations on its signature
    vp_pc,               \* "none" until the profile is created
    vp_voice_signature,  \* VoiceProfile.voice_signature
    vp_adjusted,         \* what apply_industry_adjustments returned last, and whether
                         \* it is the profile's own dict
    vp_created_at,       \* VoiceProfile.created_at
    vp_updated_at,       \* VoiceProfile.updated_at
    vp_clock,            \* datetime.utcnow(), as the number of operations so far
    vp_log,              \* the operations applied to the profile, in order
    \* ContentGenerator._calculate_voice_match_score called directly
    vm_content,          \* its content
    vm_voice_signature,  \* its voice_signature
    vm_score,            \* the score it returned, as num / den
    vm_done,             \* it has been called
    \* TemplateManager's cache, the database table and the calls that use them
    template_cache,      \* TemplateManager.template_cache: cache key to list
    cache_expiry,        \* TemplateManager.cache_expiry: cache key to timestamp
    tm_now,              \* datetime.utcnow().timestamp(), in seconds
    content_templates,   \* the rows of the content_templates table, oldest first
    tm_tasks,            \* the calls made, running or returned
    tm_log               \* what the calls did to the cache and the table, in order

fuseVars == <<analyses, voice_signature, fuse_done>>
confVars == <<cs_sig, cs_lo, cs_hi, cs_done>>
avVars   == <<av_pc, conversation_data, full_text, av_partial, av_steps, av_failed,
              av_response, av_signature, av_result, nlp, av_client>>
genVars  == <<gc_pc, gc_request, gc_client, gc_calls, gc_responses,
              primary_content, variations, gc_steps, gc_result>>
batchVars == <<batch_pc, batch_kind, batch_requests, batch_results, batch_result>>
tplVars  == <<tpl_signature, tpl_content_type, tpl_result, tpl_done>>
cmpVars  == <<cmp_profile1, cmp_profile2, cmp_profiles, cmp_voice, cmp_done>>
ppVars   == <<pp_pc, pp_content, pp_content_type, pp_industry, pp_log>>
vpVars   == <<vp_pc, vp_voice_signature, vp_adjusted, vp_created_at, vp_updated_at,
              vp_clock, vp_log>>
vmVars   == <<vm_content, vm_voice_signature, vm_score, vm_done>>
tmVars   == <<template_cache, cache_expiry, tm_now, content_templates, tm_tasks, tm_log>>

-----------------------------------------------------------------------------
(* Numbers *)

\* One unit of score: scores are hundredths.
Scale == 100

\* Python's min(a, b) and max(a, b) on numbers.
Min(a, b) == IF b < a THEN b ELSE a
Max(a, b) == IF b > a THEN b ELSE a

Abs(a) == IF a < 0 THEN -a ELSE a

\* max(0.0, min(1.0, x)): analyzer.py line 392.
Clamp01Unbounded(x) == Max(0, x)
Clamp01(x) == Max(0, Min(Scale, x))

(* Dicts *)

EmptyDict == [k \in {} |-> 0]

\* dict.get(key, default)
Get(d, key, default) == IF key \in DOMAIN d THEN d[key] ELSE default

\* d.update(e) as a value: the keys of both, e's value where both have one.
UpdateKeepingFirst(d, e) ==
    [k \in DOMAIN d \cup DOMAIN e |-> IF k \in DOMAIN d THEN d[k] ELSE e[k]]
Update(d, e) ==
    [k \in DOMAIN d \cup DOMAIN e |-> IF k \in DOMAIN e THEN e[k] ELSE d[k]]

RECURSIVE SumSeq(_)
SumSeq(s) == IF s = <<>> THEN 0 ELSE Head(s) + SumSeq(Tail(s))

RECURSIVE SetToSeq(_)
\* Some enumeration of a finite set (used only under order-insensitive sums).
SetToSeq(S) ==
    IF S = {} THEN <<>>
    ELSE LET x == CHOOSE y \in S : TRUE IN <<x>> \o SetToSeq(S \ {x})

-----------------------------------------------------------------------------
(* settings.voice_dimensions: config.py lines 63-78 *)

voice_dimensions ==
    << "formality_level", "emotional_expressiveness", "technical_depth",
       "storytelling_style", "authority_tone", "empathy_level", "humor_usage",
       "vulnerability_comfort", "industry_jargon", "communication_pace",
       "explanation_style", "question_asking_tendency", "call_to_action_style",
       "personal_experience_sharing" >>

Dimensions == { voice_dimensions[i] : i \in 1..Len(voice_dimensions) }

\* Keys of the linguistic analyzer that the fuser reads as fallback signals.
LinguisticKeys ==
    { "avg_sentence_length", "adjective_ratio", "adverb_ratio", "verb_ratio",
      "noun_ratio", "entity_density", "technical_density" }

-----------------------------------------------------------------------------
(* VoiceAnalyzer._create_voice_signature: analyzer.py lines 363-394 *)

RECURSIVE combine_analyses(_)
\* lines 368-370: combined_data.update(analysis) for each analysis in order
combine_analyses(as) ==
    IF as = <<>> THEN EmptyDict
    ELSE Update(combine_analyses(SubSeq(as, 1, Len(as) - 1)), as[Len(as)])

\* lines 373-388: the value mapped to each standard dimension.
\* avg_sentence_length is in hundredths of a token, so 15 tokens is 15 * Scale.
dimension_mappings(combined_data) ==
    [ formality_level |-> Get(combined_data, "formality_level", 50),
      emotional_expressiveness |-> Get(combined_data, "emotional_expressiveness", 30),
      technical_depth |-> Get(combined_data, "technical_depth",
                              Get(combined_data, "technical_density", 0) * 2),
      storytelling_style |-> Get(combined_data, "storytelling_style", 30),
      authority_tone |-> Get(combined_data, "authority_tone", 40),
      empathy_level |-> Get(combined_data, "empathy_level", 40),
      humor_usage |-> Get(combined_data, "humor_usage", 10),
      vulnerability_comfort |-> Get(combined_data, "vulnerability_comfort", 30),
      industry_jargon |-> Get(combined_data, "industry_jargon",
                              Get(combined_data, "entity_density", 0) * 3),
      communication_pace |-> Get(combined_data, "communication_pace", 50),
      explanation_style |-> Get(combined_data, "explanation_style",
                              Get(combined_data, "avg_sentence_length", 15 * Scale) \div 30),
      question_asking_tendency |-> Get(combined_data, "question_asking_tendency", 20),
      call_to_action_style |-> Get(combined_data, "call_to_action_style", 30),
      personal_experience_sharing |-> Get(combined_data, "personal_experience_sharing", 40) ]

\* lines 391-394: every score clamped into [0, 1]
create_voice_signature(as) ==
    LET dm == dimension_mappings(combine_analyses(as))
    IN  [ dimension \in DOMAIN dm |-> Clamp01(dm[dimension]) ]


-----------------------------------------------------------------------------
(* VoiceAnalyzer._calculate_confidence_score: analyzer.py lines 396-426      *)
(* The score is the exact rational num/den of the float the code computes.   *)

\* line 401: min(text_length / 1000, 1.0), in thousandths
length_factor_inverted(text_length) ==
    IF text_length = 0 THEN 1000 ELSE Min((1000 * 1000) \div text_length, 1000)
length_factor(text_length) == Min(text_length, 1000)

\* line 402: min(conversation_turns / 5, 1.0), in fifths
turns_factor_of_ten(conversation_turns) == Min(conversation_turns \div 2, 5)
turns_factor(conversation_turns) == Min(conversation_turns, 5)

\* line 405
expected_dimensions == Len(voice_dimensions)

\* line 406: len([v for v in voice_signature.values() if v > 0])
actual_dimensions_all(sig) == Cardinality(DOMAIN sig)
actual_dimensions(sig) == Cardinality({ k \in DOMAIN sig : sig[k] > 0 })

\* n * (n - 1) for n = len(scores); 1 when the variance is not computed
VarDen(sig) ==
    LET n == Cardinality(DOMAIN sig) IN IF n > 1 THEN n * (n - 1) ELSE 1

\* line 411: statistics.variance(scores) if len(scores) > 1 else 0, as the
\* numerator of the sample variance over VarDen(sig) * Scale^2:
\* n * sum(x^2) - sum(x)^2
score_variance(sig) ==
    LET ks == SetToSeq(DOMAIN sig)
        n  == Len(ks)
        s1 == SumSeq([ i \in 1..n |-> sig[ks[i]] ])
        s2 == SumSeq([ i \in 1..n |-> sig[ks[i]] * sig[ks[i]] ])
    IN  IF n > 1 THEN n * s2 - s1 * s1 ELSE 0

\* Common denominator of the weighted sum of lines 415-420: with weights in
\* tenths, factors in 1/1000, 1/5, 1/14 and 1/(VarDen * Scale^2).
ConfDen(sig) == 35 * Scale * Scale * VarDen(sig)

\* line 407, times 0.3: 0.3 * actual_dimensions / expected_dimensions
completeness_term(sig) ==
    (3 * (ConfDen(sig) \div 10) * actual_dimensions(sig)) \div expected_dimensions

\* line 412, times 0.2: 0.2 * max(0.5, 1.0 - score_variance)
consistency_term(sig) ==
    Max(ConfDen(sig) \div 10, 2 * (ConfDen(sig) \div 10) - 7 * score_variance(sig))

\* lines 415-422: the weighted confidence, clamped into [0, 1]
calculate_confidence_score(sig, text_length, conversation_turns) ==
    LET confidence ==
              3 * (ConfDen(sig) \div 10000) * length_factor(text_length)
            + 2 * (ConfDen(sig) \div 50) * turns_factor(conversation_turns)
            + completeness_term(sig)
            + consistency_term(sig)
    IN  [ num |-> Max(0, Min(ConfDen(sig), confidence)), den |-> ConfDen(sig) ]

-----------------------------------------------------------------------------
(* Texts: str operations on token sequences *)

Whitespace == { " ", "\n", "\t" }

\* len(text)
TextLen(text) == SumSeq([ i \in 1..Len(text) |-> Len(text[i]) ])

RECURSIVE lstrip(_)
lstrip(text) ==
    IF text # <<>> /\ Head(text) \in Whitespace THEN lstrip(Tail(text)) ELSE text

RECURSIVE rstrip(_)
rstrip(text) ==
    IF text # <<>> /\ text[Len(text)] \in Whitespace
    THEN rstrip(SubSeq(text, 1, Len(text) - 1)) ELSE text

\* text.strip()
strip(text) == rstrip(lstrip(text))

RECURSIVE join(_, _)
\* sep.join(texts)
join(sep, texts) ==
    IF texts = <<>> THEN <<>>
    ELSE IF Len(texts) = 1 THEN texts[1]
    ELSE texts[1] \o sep \o join(sep, Tail(texts))

\* len(text.split()): the maximal runs of non-whitespace characters
NumSplit(text) ==
    Cardinality({ i \in 1..Len(text) :
        /\ text[i] \notin Whitespace
        /\ (i = 1 \/ text[i - 1] \in Whitespace) })

\* len(text.split(ch)) for a single character ch
NumSplitOn(text, ch) == Cardinality({ i \in 1..Len(text) : text[i] = ch }) + 1

\* str.lower() of a token, for re.IGNORECASE.  The words of a text are
\* written in lower case or capitalised: the table has the capitalised form
\* of every word the patterns look for, and lowering any other word leaves
\* it outside the patterns.
Lower(w) ==
    CASE w = "I" -> "i"
      [] w = "Admit" -> "admit"
      [] w = "Advise" -> "advise"
      [] w = "After" -> "after"
      [] w = "Agree" -> "agree"
      [] w = "Amazing" -> "amazing"
      [] w = "Angry" -> "angry"
      [] w = "Anxious" -> "anxious"
      [] w = "Appreciate" -> "appreciate"
      [] w = "Awful" -> "awful"
      [] w = "Before" -> "before"
      [] w = "Believe" -> "believe"
      [] w = "Better" -> "better"
      [] w = "Btw" -> "btw"
      [] w = "Challenge" -> "challenge"
      [] w = "Change" -> "change"
      [] w = "Comment" -> "comment"
      [] w = "Concerned" -> "concerned"
      [] w = "Consequently" -> "consequently"
      [] w = "Consulting" -> "consulting"
      [] w = "Critical" -> "critical"
      [] w = "Delighted" -> "delighted"
      [] w = "Difficult" -> "difficult"
      [] w = "Disagree" -> "disagree"
      [] w = "Disappointed" -> "disappointed"
      [] w = "Do" -> "do"
      [] w = "During" -> "during"
      [] w = "Empathize" -> "empathize"
      [] w = "Essential" -> "essential"
      [] w = "Excellent" -> "excellent"
      [] w = "Excited" -> "excited"
      [] w = "Experience" -> "experience"
      [] w = "Failed" -> "failed"
      [] w = "Fantastic" -> "fantastic"
      [] w = "Feel" -> "feel"
      [] w = "Finally" -> "finally"
      [] w = "Finance" -> "finance"
      [] w = "First" -> "first"
      [] w = "Frustrated" -> "frustrated"
      [] w = "Funny" -> "funny"
      [] w = "Furthermore" -> "furthermore"
      [] w = "Growth" -> "growth"
      [] w = "Haha" -> "haha"
      [] w = "Happened" -> "happened"
      [] w = "Happy" -> "happy"
      [] w = "Have" -> "have"
      [] w = "Healthcare" -> "healthcare"
      [] w = "Help" -> "help"
      [] w = "How" -> "how"
      [] w = "Humor" -> "humor"
      [] w = "Important" -> "important"
      [] w = "Improve" -> "improve"
      [] w = "Incredible" -> "incredible"
      [] w = "Join" -> "join"
      [] w = "Joke" -> "joke"
      [] w = "Joy" -> "joy"
      [] w = "Know" -> "know"
      [] w = "Last" -> "last"
      [] w = "Learned" -> "learned"
      [] w = "Let" -> "let"
      [] w = "Lol" -> "lol"
      [] w = "Love" -> "love"
      [] w = "Marketing" -> "marketing"
      [] w = "Me" -> "me"
      [] w = "Mistake" -> "mistake"
      [] w = "Moreover" -> "moreover"
      [] w = "Must" -> "must"
      [] w = "My" -> "my"
      [] w = "Myself" -> "myself"
      [] w = "Need" -> "need"
      [] w = "Next" -> "next"
      [] w = "Our" -> "our"
      [] w = "Overwhelmed" -> "overwhelmed"
      [] w = "Passionate" -> "passionate"
      [] w = "Pleased" -> "pleased"
      [] w = "Pretty" -> "pretty"
      [] w = "Propose" -> "propose"
      [] w = "Really" -> "really"
      [] w = "Recommend" -> "recommend"
      [] w = "Relate" -> "relate"
      [] w = "Remember" -> "remember"
      [] w = "Sad" -> "sad"
      [] w = "Share" -> "share"
      [] w = "Should" -> "should"
      [] w = "Start" -> "start"
      [] w = "Stressed" -> "stressed"
      [] w = "Struggle" -> "struggle"
      [] w = "Suggest" -> "suggest"
      [] w = "Super" -> "super"
      [] w = "Support" -> "support"
      [] w = "Technology" -> "technology"
      [] w = "Terrible" -> "terrible"
      [] w = "Then" -> "then"
      [] w = "Therefore" -> "therefore"
      [] w = "Think" -> "think"
      [] w = "Thoughts" -> "thoughts"
      [] w = "Thrilled" -> "thrilled"
      [] w = "Time" -> "time"
      [] w = "To" -> "to"
      [] w = "Totally" -> "totally"
      [] w = "Try" -> "try"
      [] w = "Understand" -> "understand"
      [] w = "Us" -> "us"
      [] w = "We" -> "we"
      [] w = "What" -> "what"
      [] w = "When" -> "when"
      [] w = "While" -> "while"
      [] w = "Wonderful" -> "wonderful"
      [] w = "Worried" -> "worried"
      [] w = "Wrong" -> "wrong"
      [] w = "You" -> "you"
      [] w = "Your" -> "your"
      [] OTHER -> w

\* len(re.findall(r'\b(w1|w2|...)\b', text, re.IGNORECASE)) for single words
CountWords(text, words) ==
    Cardinality({ i \in 1..Len(text) : Lower(text[i]) \in words })

\* the phrase (words separated by one space) matches at token i
PhraseAt(text, i, phrase) ==
    /\ i + 2 * (Len(phrase) - 1) <= Len(text)
    /\ \A j \in 1..Len(phrase) : Lower(text[i + 2 * (j - 1)]) = phrase[j]
    /\ \A j \in 1..(Len(phrase) - 1) : text[i + 2 * (j - 1) + 1] = " "

\* the same for alternatives that are phrases of several words
CountPhrases(text, phrases) ==
    Cardinality({ <<i, ph>> \in (1..Len(text)) \X phrases : PhraseAt(text, i, ph) })

\* len(re.findall(r'[!]{2,}', text)): maximal runs of two or more "!"
CountExclamationRuns(text) ==
    Cardinality({ i \in 1..Len(text) :
        /\ text[i] = "!"
        /\ i < Len(text) /\ text[i + 1] = "!"
        /\ (i = 1 \/ text[i - 1] # "!") })

\* min(count / n * mult, 1.0) if n else 0, rounded down to hundredths
Density(count, n, mult) ==
    IF n = 0 THEN 0 ELSE Min((count * mult * Scale) \div n, Scale)

-----------------------------------------------------------------------------
(* Python values that may be None *)

None == [ type |-> "NoneType" ]
Str(text) == [ type |-> "str", val |-> text ]
Dict(d) == [ type |-> "dict", val |-> d ]
Number(x) == [ type |-> "number", val |-> x ]
Bool(b) == [ type |-> "bool", val |-> b ]

-----------------------------------------------------------------------------
(* VoiceAnalyzer._combine_transcriptions: analyzer.py lines 116-123 *)

\* item.get("transcription", "") raises AttributeError on .strip() when None
CombineRaises(cd) ==
    \E i \in 1..Len(cd) :
        "transcription" \in DOMAIN cd[i] /\ cd[i].transcription.type # "str"

\* lines 119-122: the stripped, non-empty transcriptions in order
RECURSIVE stripped_transcriptions(_)
stripped_transcriptions(cd) ==
    IF cd = <<>> THEN <<>>
    ELSE LET item == Head(cd)
             transcription ==
                 strip(Get(item, "transcription", Str(<<>>)).val)
         IN  (IF transcription # <<>> THEN << transcription >> ELSE <<>>)
             \o stripped_transcriptions(Tail(cd))

\* line 123: " ".join(combined)
combine_transcriptions(cd) == join(<<" ">>, stripped_transcriptions(cd))

-----------------------------------------------------------------------------
(* VoiceAnalyzer._analyze_communication_style: analyzer.py lines 174-250 *)

analyze_communication_style(text) ==
    LET words == NumSplit(text)
        question_count == Cardinality({ i \in 1..Len(text) : text[i] = "?" })
        first_person_pronouns ==
            CountWords(text, { "i", "my", "me", "myself", "we", "us", "our" })
        story ==
              CountWords(text, { "when", "then", "after", "before", "during", "while" })
            + CountWords(text, { "happened", "experience", "remember", "time" })
            + CountWords(text, { "first", "last", "next", "finally" })
        authority ==
              CountWords(text, { "should", "must", "important", "critical", "essential" })
            + CountPhrases(text, { << "need", "to" >> })
            + CountWords(text, { "recommend", "suggest", "advise", "propose" })
            + CountWords(text, { "believe", "think", "know", "understand" })
        empathy ==
              CountWords(text, { "understand", "feel", "empathize", "relate", "appreciate" })
            + CountWords(text, { "challenge", "difficult", "struggle", "help", "support" })
        \* the emoji alternatives of line 221 match no token of the vocabulary
        humor ==
              CountWords(text, { "funny", "humor", "joke", "lol", "haha" })
            + CountExclamationRuns(text)
        cta ==
              CountWords(text, { "let", "try", "start", "join", "share", "comment", "thoughts" })
            + CountPhrases(text, { << "what", "do", "you" >>, << "how", "do", "you" >>,
                                   << "have", "you" >> })
    IN  [ question_asking_tendency |->
              Density(question_count, NumSplitOn(text, "."), 5),
          personal_experience_sharing |-> Density(first_person_pronouns, words, 3),
          storytelling_style |-> Density(story, words, 10),
          authority_tone |-> Density(authority, words, 5),
          empathy_level |-> Density(empathy, words, 8),
          humor_usage |-> Density(humor, words, 20),
          call_to_action_style |-> Density(cta, words, 5) ]

(* VoiceAnalyzer._analyze_emotional_patterns: analyzer.py lines 252-295 *)

analyze_emotional_patterns(text) ==
    LET positive_score ==
              CountWords(text, { "excited", "thrilled", "amazing", "fantastic", "love",
                                 "passionate", "incredible" })
            + CountWords(text, { "happy", "joy", "delighted", "pleased", "wonderful",
                                 "excellent" })
        negative_score ==
              CountWords(text, { "frustrated", "disappointed", "angry", "sad", "terrible",
                                 "awful" })
            + CountWords(text, { "worried", "concerned", "anxious", "stressed",
                                 "overwhelmed" })
        vulnerability_score ==
              CountWords(text, { "mistake", "failed", "wrong", "difficult", "challenge",
                                 "admit" })
            + CountWords(text, { "learned", "growth", "improve", "better", "change" })
        total_words == NumSplit(text)
    IN  [ emotional_expressiveness |->
              Density(positive_score + negative_score, total_words, 20),
          vulnerability_comfort |-> Density(vulnerability_score, total_words, 15) ]

(* VoiceAnalyzer._analyze_linguistic_patterns: analyzer.py lines 125-172     *)
(* The spaCy document is an answer of the external tagger: doc carries the   *)
(* counts the method reads from it.                                          *)

\* lines 134-168, from the counts of a parsed document
analyze_linguistic_patterns(doc) ==
    LET total_tokens == doc.total_tokens
        ratio(n) == IF total_tokens > 0 THEN (n * Scale) \div total_tokens ELSE 0
    IN  [ avg_sentence_length |->
              IF doc.sentences > 0
              THEN (doc.sentence_tokens * Scale) \div doc.sentences ELSE 0,
          adjective_ratio |-> ratio(doc.adj),
          adverb_ratio |-> ratio(doc.adv),
          verb_ratio |-> ratio(doc.verb),
          noun_ratio |-> ratio(doc.noun),
          entity_density |-> ratio(doc.entities),
          technical_density |-> ratio(doc.technical_words) ]

(* VoiceAnalyzer._ai_enhanced_analysis: analyzer.py lines 297-361 *)

\* lines 343-346: the numeric entries (bool is an int in Python), clamped
validated_scores(ai_scores) ==
    [ key \in { k \in DOMAIN ai_scores : ai_scores[k].type \in { "number", "bool" } } |->
        IF ai_scores[key].type = "bool"
        THEN (IF ai_scores[key].val THEN Scale ELSE 0)
        ELSE Clamp01(ai_scores[key].val) ]

\* lines 320-361 on the provider's answer: a transport error, a text without
\* a JSON object, a text whose braces hold no valid JSON, or a JSON object
ai_enhanced_analysis_guess(response) ==
    IF response.kind = "json" THEN validated_scores(response.scores)
    ELSE [ k \in { "formality_level" } |-> 50 ]
ai_enhanced_analysis(response) ==
    CASE response.kind = "error" -> EmptyDict
      [] response.kind = "no_json" -> EmptyDict
      [] response.kind = "bad_json" -> EmptyDict
      [] response.kind = "json" -> validated_scores(response.scores)

-----------------------------------------------------------------------------
(* Inputs of the fuser and of the confidence scorer *)

\* Longest *analyses tuple tried on the fuser alone.
MaxAnalyses == 2

\* Most conversation turns tried on the confidence scorer alone.
MaxConfTurns == 6

\* Key sets of the partial mappings: all dimensions, the five the AI estimator
\* is asked for, the linguistic fallback signals, two stylistic dimensions.
FuseKeySets ==
    { Dimensions,
      { "formality_level", "technical_depth", "communication_pace",
        "explanation_style", "industry_jargon" },
      { "technical_density", "entity_density", "avg_sentence_length" },
      { "humor_usage", "storytelling_style" } }

\* Values of a partial mapping, inside and outside [0, 1].
FuseValues == { -60, 0, 30, 90, 150 }

PartialMappings ==
    { EmptyDict } \cup { [ k \in K |-> v ] : K \in FuseKeySets, v \in FuseValues }

RECURSIVE TuplesUpTo(_, _)
\* All tuples over S of length at most n.
TuplesUpTo(S, n) ==
    IF n = 0 THEN { <<>> }
    ELSE LET shorter == TuplesUpTo(S, n - 1)
         IN  shorter \cup { Append(t, x) : t \in shorter, x \in S }

\* Signatures handed to the scorer: fused ones, the empty one, partial ones.
ConfSignatures ==
    { create_voice_signature(<<m>>) : m \in PartialMappings }
    \cup { m \in PartialMappings : \A k \in DOMAIN m : m[k] >= 0 /\ m[k] <= Scale }

TextLengths == { 0, 50, 500, 1000, 1001, 2000 }

NoScore == [ text_length |-> 0, turns |-> 0, score |-> [ num |-> 0, den |-> 1 ] ]

-----------------------------------------------------------------------------
(* Actions: the fuser and the scorer called directly *)

\* _create_voice_signature(*as)
CreateVoiceSignature(as) ==
    /\ ~fuse_done
    /\ analyses' = as
    /\ voice_signature' = create_voice_signature(as)
    /\ fuse_done' = TRUE

\* _calculate_confidence_score(sig, a, c) and (sig, b, d) on one signature
CalculateConfidenceScore(sig, a, c, b, d) ==
    /\ ~cs_done
    /\ cs_sig' = sig
    /\ cs_lo' = [ text_length |-> a, turns |-> c,
                  score |-> calculate_confidence_score(sig, a, c) ]
    /\ cs_hi' = [ text_length |-> b, turns |-> d,
                  score |-> calculate_confidence_score(sig, b, d) ]
    /\ cs_done' = TRUE

-----------------------------------------------------------------------------
(* VoiceAnalyzer.analyze_voice: analyzer.py lines 45-114 *)

\* settings.min_transcription_length
min_transcription_length == 50

\* Most turns of a conversation passed to analyze_voice.
MaxTurns == 2

TextA == << "I", " ", "feel", " ", "we", " ", "must", " ", "help", " ", "you", "." >>
TextB == << "I", " ", "think", " ", "we", " ", "must", " ", "help", " ", "you", "." >>
TextLong ==
    << "When", " ", "I", " ", "failed", " ", "I", " ", "learned", " ", "from", " ",
       "my", " ", "mistake", "!", "!", " ", "What", " ", "do", " ", "you", " ",
       "think", "?" >>

\* The turns a conversation is made of: with and without metadata and
\* transcription, with None for either (a NULL column of the caller's query).
ConversationTurns ==
    { [ transcription |-> Str(TextA), metadata |-> Dict(EmptyDict) ],
      [ transcription |-> Str(TextB), metadata |-> Dict(EmptyDict) ],
      [ transcription |-> Str(<<" ">> \o TextA \o <<" ", "\n">>) ],
      [ transcription |-> Str(<<" ", " ">>), metadata |-> Dict(EmptyDict) ],
      [ metadata |-> Dict(EmptyDict) ],
      [ transcription |-> None, metadata |-> Dict(EmptyDict) ],
      [ transcription |-> Str(TextA), metadata |-> None ],
      [ transcription |-> Str(TextLong), metadata |-> Dict(EmptyDict) ] }

\* Answers of the spaCy pipeline: it raises, or parses the text into a document.
LinguisticDocs ==
    { [ total_tokens |-> 12, sentences |-> 1, sentence_tokens |-> 12, adj |-> 0,
        adv |-> 0, verb |-> 3, noun |-> 0, entities |-> 0, technical_words |-> 0 ],
      [ total_tokens |-> 25, sentences |-> 2, sentence_tokens |-> 25, adj |-> 2,
        adv |-> 1, verb |-> 5, noun |-> 6, entities |-> 3, technical_words |-> 5 ] }

\* Answers of the text-generation provider to the analysis prompt.
AiResponses ==
    { [ kind |-> "error" ],
      [ kind |-> "no_json" ],
      [ kind |-> "bad_json" ],
      [ kind |-> "json",
        scores |-> [ formality_level |-> Number(80), technical_depth |-> Number(60),
                     communication_pace |-> Number(50), explanation_style |-> Number(70),
                     industry_jargon |-> Number(20) ] ],
      [ kind |-> "json",
        scores |-> [ formality_level |-> Number(150), technical_depth |-> Str(<<"high">>),
                     communication_pace |-> None, explanation_style |-> Bool(TRUE),
                     humor_usage |-> Number(90) ] ] }

Raised(error) == [ kind |-> "raised", error |-> error ]

\* line 68: len(full_text) < settings.min_transcription_length
insufficient_text_empty_only(text) == TextLen(text) = 0
insufficient_text(text) == TextLen(text) < min_transcription_length

\* line 60: conversation_data[0].get("metadata", {}).get(...), before the try
LogStartError(cd) ==
    IF cd = <<>> THEN "IndexError"
    ELSE IF "metadata" \in DOMAIN cd[1] /\ cd[1].metadata.type # "dict"
         THEN "AttributeError"
    ELSE "none"

\* lines 56-69: the call up to the length check
AnalyzeVoice(cd) ==
    /\ av_pc = "idle"
    /\ conversation_data' = cd
    /\ IF LogStartError(cd) # "none"
       THEN /\ av_result' = Raised(LogStartError(cd))
            /\ av_pc' = "done"
            /\ UNCHANGED << full_text, av_steps >>
       ELSE IF CombineRaises(cd)
       THEN /\ av_result' = Raised("AttributeError")
            /\ av_pc' = "done"
            /\ av_steps' = Append(av_steps, "combine_transcriptions")
            /\ UNCHANGED full_text
       ELSE /\ full_text' = Str(combine_transcriptions(cd))
            /\ av_steps' = Append(av_steps, "combine_transcriptions")
            /\ IF insufficient_text(combine_transcriptions(cd))
               THEN av_result' = Raised("InsufficientText") /\ av_pc' = "done"
               ELSE av_pc' = "linguistic" /\ UNCHANGED av_result
    /\ UNCHANGED << av_partial, av_failed, av_response, av_signature, nlp, av_client >>

\* line 72: the tagger is missing, or raises, or parses the text
AnalyzeLinguisticPatterns ==
    /\ av_pc = "linguistic"
    /\ \/ /\ ~nlp
          /\ av_partial' = Append(av_partial, EmptyDict)
          /\ av_failed' = av_failed \cup { "linguistic" }
       \/ /\ nlp
          /\ av_partial' = Append(av_partial, EmptyDict)
          /\ av_failed' = av_failed \cup { "linguistic" }
       \/ /\ nlp
          /\ \E doc \in LinguisticDocs :
                av_partial' = Append(av_partial, analyze_linguistic_patterns(doc))
          /\ UNCHANGED av_failed
    /\ av_steps' = Append(av_steps, "analyze_linguistic_patterns")
    /\ av_pc' = "style"
    /\ UNCHANGED << conversation_data, full_text, av_response, av_signature, av_result,
                    nlp, av_client >>

\* line 73: the mapping of lines 238-246, or {} when an error is caught
\* (lines 248-250)
AnalyzeCommunicationStyle ==
    /\ av_pc = "style"
    /\ \/ /\ av_partial' = Append(av_partial, analyze_communication_style(full_text.val))
          /\ UNCHANGED av_failed
       \/ /\ av_partial' = Append(av_partial, EmptyDict)
          /\ av_failed' = av_failed \cup { "style" }
    /\ av_steps' = Append(av_steps, "analyze_communication_style")
    /\ av_pc' = "emotional"
    /\ UNCHANGED << conversation_data, full_text, av_response, av_signature, av_result,
                    nlp, av_client >>

\* line 74: the mapping of lines 288-291, or {} when an error is caught
\* (lines 293-295)
AnalyzeEmotionalPatterns ==
    /\ av_pc = "emotional"
    /\ \/ /\ av_partial' = Append(av_partial, analyze_emotional_patterns(full_text.val))
          /\ UNCHANGED av_failed
       \/ /\ av_partial' = Append(av_partial, EmptyDict)
          /\ av_failed' = av_failed \cup { "emotional" }
    /\ av_steps' = Append(av_steps, "analyze_emotional_patterns")
    /\ av_pc' = "ai"
    /\ UNCHANGED << conversation_data, full_text, av_response, av_signature, av_result,
                    nlp, av_client >>

\* line 75: no client, or the provider's answer
AiEnhancedAnalysis ==
    /\ av_pc = "ai"
    /\ \/ /\ ~av_client
          /\ av_partial' = Append(av_partial, EmptyDict)
          /\ av_failed' = av_failed \cup { "ai" }
          /\ UNCHANGED av_response
       \/ /\ av_client
          /\ \E response \in AiResponses :
                /\ av_partial' = Append(av_partial, ai_enhanced_analysis(response))
                /\ av_response' = response
                /\ av_failed' = IF response.kind = "json" THEN av_failed
                                ELSE av_failed \cup { "ai" }
    /\ av_steps' = Append(av_steps, "ai_enhanced_analysis")
    /\ av_pc' = "fuse"
    /\ UNCHANGED << conversation_data, full_text, av_signature, av_result, nlp, av_client >>

\* lines 78-83
FuseAnalyses ==
    /\ av_pc = "fuse"
    /\ av_signature' = create_voice_signature(av_partial)
    /\ av_steps' = Append(av_steps, "create_voice_signature")
    /\ av_pc' = "score"
    /\ UNCHANGED << conversation_data, full_text, av_partial, av_failed, av_response,
                    av_result, nlp, av_client >>

\* lines 86-110
ScoreAndReturn ==
    /\ av_pc = "score"
    /\ av_result' =
         [ kind |-> "returned",
           voice_signature |-> av_signature,
           confidence_score |->
               calculate_confidence_score(av_signature, TextLen(full_text.val),
                                          Len(conversation_data)),
           processing_details |->
               [ text_length |-> TextLen(full_text.val),
                 conversation_turns |-> Len(conversation_data),
                 analysis_dimensions |-> Cardinality(DOMAIN av_signature) ] ]
    /\ av_steps' = Append(av_steps, "calculate_confidence_score")
    /\ av_pc' = "done"
    /\ UNCHANGED << conversation_data, full_text, av_partial, av_failed, av_response,
                    av_signature, nlp, av_client >>

-----------------------------------------------------------------------------
(* ContentGenerator post-processing: generator.py lines 408-534 *)

\* The characters of the vocabulary that are not \w: each is a token.
NonWordTokens ==
    Whitespace \cup { ".", "!", "?", "#", ",", "'", ":", "-" }

IsWord(token) == token \notin NonWordTokens

RECURSIVE SplitOn(_, _)
\* re.split on single separator characters: the pieces between them
SplitOn(text, seps) ==
    IF \A i \in 1..Len(text) : text[i] \notin seps THEN << text >>
    ELSE LET i == CHOOSE j \in 1..Len(text) :
                     text[j] \in seps /\ \A k \in 1..(j - 1) : text[k] \notin seps
         IN  << SubSeq(text, 1, i - 1) >> \o SplitOn(SubSeq(text, i + 1, Len(text)), seps)

RECURSIVE StrippedNonEmpty(_)
\* lines 435-437: sentence.strip() for each piece, the empty ones dropped
StrippedNonEmpty(pieces) ==
    IF pieces = <<>> THEN <<>>
    ELSE (IF strip(Head(pieces)) # <<>> THEN << strip(Head(pieces)) >> ELSE <<>>)
         \o StrippedNonEmpty(Tail(pieces))

RECURSIVE Paragraphs(_)
\* lines 438-447: '. '.join of every two sentences, plus '.'
Paragraphs(sentences) ==
    IF sentences = <<>> THEN <<>>
    ELSE IF Len(sentences) = 1 THEN << sentences[1] \o << "." >> >>
    ELSE << sentences[1] \o << ".", " " >> \o sentences[2] \o << "." >> >>
         \o Paragraphs(SubSeq(sentences, 3, Len(sentences)))

\* _add_line_breaks: lines 426-449; re.split(r'[.!?]+') leaves the same
\* non-empty pieces as splitting on each of the characters
add_line_breaks(content) ==
    join(<< "\n", "\n" >>,
         Paragraphs(StrippedNonEmpty(SplitOn(content, { ".", "!", "?" }))))

\* lines 454-460 and 467; a hashtag is written as the word after its '#'
industry_hashtags(industry) ==
    CASE industry = "technology" ->
            << "TechLeadership", "Innovation", "DigitalTransformation", "TechTrends" >>
      [] industry = "finance" ->
            << "FinTech", "FinancialServices", "InvestmentStrategy", "EconomicInsights" >>
      [] industry = "healthcare" ->
            << "HealthcareInnovation", "MedicalLeadership", "PatientCare", "HealthTech" >>
      [] industry = "marketing" ->
            << "MarketingStrategy", "DigitalMarketing", "BrandBuilding", "MarketingInsights" >>
      [] industry = "consulting" ->
            << "BusinessStrategy", "Consulting", "Leadership", "BusinessTransformation" >>
      [] OTHER -> << "Leadership", "ProfessionalGrowth", "BusinessInsights" >>

RECURSIVE FindHashtagsFrom(_, _)
\* line 463: re.findall(r'#\w+', content), in order
FindHashtagsFrom(text, i) ==
    IF i >= Len(text) THEN <<>>
    ELSE IF text[i] = "#" /\ IsWord(text[i + 1])
         THEN << text[i + 1] >> \o FindHashtagsFrom(text, i + 2)
    ELSE FindHashtagsFrom(text, i + 1)

existing_hashtags_first_only(content) ==
    SubSeq(FindHashtagsFrom(content, 1), 1, Min(1, Len(FindHashtagsFrom(content, 1))))
existing_hashtags(content) == FindHashtagsFrom(content, 1)

InSeq(x, seq) == \E i \in 1..Len(seq) : seq[i] = x

RECURSIVE SelectNewHashtags(_, _, _, _)
\* lines 470-473: the suggestions not present, while fewer than limit chosen
SelectNewHashtags(suggested, existing, chosen, limit) ==
    IF suggested = <<>> THEN chosen
    ELSE SelectNewHashtags(
            Tail(suggested), existing,
            IF ~InSeq(Head(suggested), existing) /\ Len(chosen) < limit
            THEN Append(chosen, Head(suggested)) ELSE chosen,
            limit)

RECURSIVE HashtagLine(_)
\* " ".join(new_hashtags) as a text
HashtagLine(tags) ==
    IF tags = <<>> THEN <<>>
    ELSE IF Len(tags) = 1 THEN << "#", tags[1] >>
    ELSE << "#", tags[1], " " >> \o HashtagLine(Tail(tags))

\* lines 465-473
new_hashtags(content, industry) ==
    SelectNewHashtags(industry_hashtags(Lower(industry)), existing_hashtags(content),
                      <<>>, 5 - Len(existing_hashtags(content)))

\* _optimize_hashtags: lines 451-478
optimize_hashtags(content, industry) ==
    IF Len(existing_hashtags(content)) < 3 /\ new_hashtags(content, industry) # <<>>
    THEN content \o << "\n", "\n" >> \o HashtagLine(new_hashtags(content, industry))
    ELSE content

\* lines 483-489: any of the three patterns is found in the content
has_cta_keywords_only(content) == CountWords(content, { "thoughts", "comment" }) > 0
has_cta(content) ==
    \/ CountWords(content, { "thoughts", "comment" }) > 0
    \/ CountPhrases(content, { << "what", "do", "you", "think" >>, << "share", "your" >>,
                               << "let", "me", "know" >> }) > 0
    \/ \E i \in 1..Len(content) :
          content[i] = "?" /\ \A j \in (i + 1)..Len(content) : content[j] # "?"
    \/ \E i \in 1..Len(content), j \in 1..Len(content) :
          /\ i < j
          /\ Lower(content[i]) \in { "agree", "disagree", "experience" }
          /\ content[j] = "?"
          /\ \A k \in (i + 1)..(j - 1) : content[k] # "."

\* lines 493-510
cta_post ==
    { << "What", "'", "s", " ", "your", " ", "experience", " ", "with", " ", "this", "?" >>,
      << "Thoughts", "?" >>,
      << "How", " ", "do", " ", "you", " ", "handle", " ", "this", " ", "in", " ", "your",
         " ", "organization", "?" >>,
      << "What", " ", "would", " ", "you", " ", "add", " ", "to", " ", "this", " ",
         "list", "?" >> }

cta_story ==
    { << "Have", " ", "you", " ", "had", " ", "a", " ", "similar", " ", "experience", "?" >>,
      << "What", " ", "lessons", " ", "have", " ", "you", " ", "learned", " ", "in", " ",
         "similar", " ", "situations", "?" >>,
      << "How", " ", "would", " ", "you", " ", "have", " ", "handled", " ", "this", " ",
         "differently", "?" >> }

cta_article ==
    { << "What", " ", "strategies", " ", "have", " ", "worked", " ", "best", " ", "for",
         " ", "you", "?" >>,
      << "I", "'", "d", " ", "love", " ", "to", " ", "hear", " ", "your", " ",
         "perspective", " ", "on", " ", "this", "." >>,
      << "What", " ", "other", " ", "factors", " ", "would", " ", "you", " ", "consider",
         " ", "important", "?" >> }

\* line 512: cta_options.get(content_type, cta_options["post"])
cta_options(content_type) ==
    CASE content_type = "post" -> cta_post
      [] content_type = "story" -> cta_story
      [] content_type = "article" -> cta_article
      [] OTHER -> cta_post

\* _ensure_call_to_action: lines 480-517, selected_cta being random.choice's pick
ensure_call_to_action(content, content_type, selected_cta) ==
    IF ~has_cta(content) THEN content \o << "\n", "\n" >> \o selected_cta ELSE content

\* the first index of ch in text, or Len(text) + 1
IndexOf(text, ch) ==
    IF \E i \in 1..Len(text) : text[i] = ch
    THEN CHOOSE i \in 1..Len(text) : text[i] = ch /\ \A k \in 1..(i - 1) : text[k] # ch
    ELSE Len(text) + 1

RECURSIVE SpaceBeforeHash(_, _)
\* line 532: re.sub(r'(\w)#', r'\1 #', formatted)
SpaceBeforeHash(text, i) ==
    IF i > Len(text) THEN <<>>
    ELSE (IF text[i] = "#" /\ i > 1 /\ IsWord(text[i - 1]) THEN << " ", "#" >>
          ELSE << text[i] >>) \o SpaceBeforeHash(text, i + 1)

\* _format_for_linkedin: lines 519-534
format_for_linkedin(content, content_type) ==
    LET eol == IndexOf(content, "\n")
        line0 == SubSeq(content, 1, eol - 1)
        rest == SubSeq(content, eol, Len(content))
        dot == IndexOf(line0, ".")
        first_sentence == SubSeq(line0, 1, dot - 1)
        new_line0 ==
            IF TextLen(line0) > 100 /\ TextLen(first_sentence) < 80
            THEN first_sentence \o << ".", "\n", "\n" >> \o SubSeq(line0, dot + 1, Len(line0))
            ELSE line0
    IN  strip(SpaceBeforeHash(new_line0 \o rest, 1))

\* _optimize_content: lines 408-424; user_profile.get("industry", "business")
optimize_content(content, content_type, industry, selected_cta) ==
    format_for_linkedin(
        ensure_call_to_action(
            optimize_hashtags(add_line_breaks(content), industry),
            content_type, selected_cta),
        content_type)

\* _calculate_voice_match_score: lines 536-569, as num / den
calculate_voice_match_score(content, sig) ==
    LET formal_indicators ==
            CountWords(content, { "furthermore", "therefore", "consequently", "moreover" })
        casual_indicators ==
            CountWords(content, { "btw", "really", "pretty", "super", "totally" })
        actual_formality ==
            IF formal_indicators > casual_indicators
            THEN Min((formal_indicators * Scale) \div 5, Scale)
            ELSE Max(0, Scale - (casual_indicators * Scale) \div 5)
        formality_match == Scale - Abs(Get(sig, "formality_level", 50) - actual_formality)
        story_indicators ==
            CountWords(content, { "when", "then", "after", "experience", "remember", "time" })
        actual_storytelling == Min((story_indicators * Scale) \div 10, Scale)
        storytelling_match ==
            Scale - Abs(Get(sig, "storytelling_style", 30) - actual_storytelling)
        personal_indicators == CountWords(content, { "i", "my", "me", "we", "our" })
        actual_personal == Min((personal_indicators * Scale) \div 20, Scale)
        personal_match ==
            Scale - Abs(Get(sig, "personal_experience_sharing", 40) - actual_personal)
    IN  [ num |-> formality_match + storytelling_match + personal_match,
          den |-> 3 * Scale ]

\* _calculate_voice_match_score(content, voice_signature)
CalculateVoiceMatchScore(content, sig) ==
    /\ ~vm_done
    /\ vm_content' = content
    /\ vm_voice_signature' = sig
    /\ vm_score' = calculate_voice_match_score(content, sig)
    /\ vm_done' = TRUE

-----------------------------------------------------------------------------
(* ContentGenerator.generate_content: generator.py lines 32-117, 284-406 *)

\* _calculate_temperature: lines 329-340, in thousandths
calculate_temperature(sig) ==
    LET expressiveness == Get(sig, "emotional_expressiveness", 30)
        humor == Get(sig, "humor_usage", 10)
        storytelling == Get(sig, "storytelling_style", 30)
    IN  Min(900, Max(300, 300 + 2 * (expressiveness + humor + storytelling)))

\* lines 378 and 393: min(0.9, temperature + 0.1), in thousandths
variation_temperature(sig) == Min(900, calculate_temperature(sig) + 100)

\* _calculate_max_tokens: lines 342-351
calculate_max_tokens(content_type) ==
    CASE content_type = "post" -> 500
      [] content_type = "article" -> 2000
      [] content_type = "story" -> 600
      [] content_type = "poll" -> 300
      [] content_type = "carousel" -> 400
      [] OTHER -> 500

\* the provider raised (transport, quota, timeout)
ProviderError == [ type |-> "error" ]

\* lines 295-311: the primary call as issued
primary_call(request) ==
    [ kind |-> "primary",
      temperature |-> calculate_temperature(request.voice_signature),
      max_tokens |-> calculate_max_tokens(request.content_type) ]

\* lines 380-394: a follow-up call as issued
variation_call(request, content) ==
    [ kind |-> "variation",
      temperature |-> variation_temperature(request.voice_signature),
      max_tokens |-> NumSplit(content) * 2 ]

\* line 72: preferences.get("generate_variations", False)
generate_variations_requested(request) ==
    Get(request.preferences, "generate_variations", FALSE)

\* line 77: preferences.get("max_variations", 2)
requested_max_variations(request) == Get(request.preferences, "max_variations", 2)

\* line 361: range(max_variations) has another index after i calls
more_variations(issued, max_variations) == issued < max_variations

Returned(value) == [ kind |-> "returned", value |-> value ]

\* lines 48-64 and 287-288: the call up to the primary provider call
GenerateContent(request) ==
    /\ gc_pc = "idle"
    /\ gc_request' = request
    /\ gc_steps' = << "build_generation_prompt", "generate_with_openai" >>
    /\ IF ~gc_client
       THEN /\ gc_result' = Raised("ClientNotInitialized")
            /\ gc_pc' = "done"
            /\ UNCHANGED gc_calls
       ELSE /\ gc_calls' = << primary_call(request) >>
            /\ gc_pc' = "primary"
            /\ UNCHANGED gc_result
    /\ UNCHANGED << gc_client, gc_responses, primary_content, variations >>

\* lines 313-327 and 70-78, 356-357: the provider answers the primary call
PrimaryResponse(response) ==
    /\ gc_pc = "primary"
    /\ gc_responses' = Append(gc_responses, response)
    /\ IF response.type # "str"
       THEN /\ gc_result' =
                Raised(IF response.type = "error" THEN "ProviderError" ELSE "AttributeError")
            /\ gc_pc' = "done"
            /\ UNCHANGED << primary_content, gc_calls, gc_steps >>
       ELSE /\ primary_content' = Str(strip(response.val))
            /\ IF generate_variations_requested(gc_request)
               THEN /\ gc_steps' = Append(gc_steps, "generate_variations")
                    /\ IF more_variations(0, requested_max_variations(gc_request))
                       THEN /\ gc_calls' =
                                Append(gc_calls,
                                       variation_call(gc_request, strip(response.val)))
                            /\ gc_pc' = "variation"
                       ELSE /\ gc_pc' = "optimize"
                            /\ UNCHANGED gc_calls
               ELSE /\ gc_pc' = "optimize"
                    /\ UNCHANGED << gc_calls, gc_steps >>
            /\ UNCHANGED gc_result
    /\ UNCHANGED << gc_request, gc_client, variations >>

\* lines 361-404: the provider answers a follow-up call. An answer is
\* appended and the call then waits in asyncio.sleep(0.5), line 400; a
\* failure is skipped without a wait, and the loop goes on at once
VariationResponse(response) ==
    /\ gc_pc = "variation"
    /\ gc_responses' = Append(gc_responses, response)
    /\ IF response.type = "str"
       THEN /\ variations' = Append(variations, strip(response.val))
            /\ gc_pc' = "sleep"
            /\ UNCHANGED gc_calls
       ELSE /\ UNCHANGED variations
            /\ IF more_variations(Len(gc_calls) - 1, requested_max_variations(gc_request))
               THEN /\ gc_calls' =
                        Append(gc_calls, variation_call(gc_request, primary_content.val))
                    /\ UNCHANGED gc_pc
               ELSE /\ gc_pc' = "optimize"
                    /\ UNCHANGED gc_calls
    /\ UNCHANGED << gc_request, gc_client, primary_content, gc_steps, gc_result >>

\* lines 400 and 361-394: the wait is over; the loop issues the next
\* follow-up call, or ends
VariationSleepDone ==
    /\ gc_pc = "sleep"
    /\ IF more_variations(Len(gc_calls) - 1, requested_max_variations(gc_request))
       THEN /\ gc_calls' = Append(gc_calls, variation_call(gc_request, primary_content.val))
            /\ gc_pc' = "variation"
       ELSE /\ gc_pc' = "optimize"
            /\ UNCHANGED gc_calls
    /\ UNCHANGED << gc_request, gc_client, gc_responses, primary_content, variations,
                    gc_steps, gc_result >>

\* lines 80-113: post-processing, voice match and the returned result
OptimizeAndReturn(selected_cta) ==
    /\ gc_pc = "optimize"
    /\ LET optimized_content ==
               optimize_content(primary_content.val, gc_request.content_type,
                                Get(gc_request.user_profile, "industry", "business"),
                                selected_cta)
       IN  gc_result' =
               Returned([ content |-> optimized_content,
                          variations |-> variations,
                          voice_match_score |->
                              calculate_voice_match_score(optimized_content,
                                                          gc_request.voice_signature),
                          voice_dimensions_used |->
                              Cardinality(DOMAIN gc_request.voice_signature) ])
    /\ gc_steps' = gc_steps \o << "optimize_content", "calculate_voice_match_score" >>
    /\ gc_pc' = "done"
    /\ UNCHANGED << gc_request, gc_client, gc_calls, gc_responses, primary_content,
                    variations >>

-----------------------------------------------------------------------------
(* batch_generate_content: generator.py lines 581-641;                     *)
(* batch_transcribe: transcription.py lines 303-360                        *)

\* lines 583 and 305: the largest batch accepted
max_batch_size == 10

\* lines 594 and 596: request["topic"], request["voice_signature"] and
\* request["user_profile"] are read while the tasks are created
request_keys_missing(requests) ==
    \E i \in 1..Len(requests) : requests[i] = "missing_key"

\* lines 612 and 331: isinstance(result, Exception). A result is what the
\* item's call returned, an Exception it raised, or the asyncio.CancelledError
\* it raised, which is a BaseException and no Exception
isinstance_exception(result) == result = "raised"

RECURSIVE batch_entries(_, _, _, _, _)
\* lines 611-621 and 330-340: the entries of the items from i on whose result
\* is (failed) or is not (successful) an exception; an entry holds the item's
\* request_index, or its audio_url, audio_urls[i]
batch_entries(kind, requests, results, i, failed) ==
    IF i > Len(results) THEN <<>>
    ELSE (IF isinstance_exception(results[i]) = failed
          THEN << IF kind = "generate" THEN [ request_index |-> i - 1 ]
                  ELSE [ audio_url |-> requests[i] ] >>
          ELSE <<>>)
         \o batch_entries(kind, requests, results, i + 1, failed)

\* lines 581-601: the size check and the creation of the tasks
BatchGenerateContent(requests) ==
    /\ batch_pc = "idle"
    /\ batch_kind' = "generate"
    /\ batch_requests' = requests
    /\ IF Len(requests) > max_batch_size
       THEN /\ batch_result' = Raised("MaximumBatchSize")
            /\ batch_pc' = "done"
            /\ UNCHANGED batch_results
       ELSE IF request_keys_missing(requests)
       THEN /\ batch_result' = Raised("KeyError")
            /\ batch_pc' = "done"
            /\ UNCHANGED batch_results
       ELSE /\ batch_results' = [ i \in 1..Len(requests) |-> "pending" ]
            /\ batch_pc' = "gather"
            /\ UNCHANGED batch_result

\* transcription.py lines 303-317
BatchTranscribe(audio_urls) ==
    /\ batch_pc = "idle"
    /\ batch_kind' = "transcribe"
    /\ batch_requests' = audio_urls
    /\ IF Len(audio_urls) > max_batch_size
       THEN /\ batch_result' = Raised("MaximumBatchSize")
            /\ batch_pc' = "done"
            /\ UNCHANGED batch_results
       ELSE /\ batch_results' = [ i \in 1..Len(audio_urls) |-> "pending" ]
            /\ batch_pc' = "gather"
            /\ UNCHANGED batch_result

\* one item's own call (generate_content or transcribe) returns its result
ItemReturns(i) ==
    /\ batch_pc = "gather"
    /\ i \in 1..Len(batch_results)
    /\ batch_results[i] = "pending"
    /\ batch_results' = [ batch_results EXCEPT ![i] = "returned" ]
    /\ UNCHANGED << batch_pc, batch_kind, batch_requests, batch_result >>

\* one item's own call raises: gather(return_exceptions=True) keeps it
ItemRaises(i) ==
    /\ batch_pc = "gather"
    /\ i \in 1..Len(batch_results)
    /\ batch_results[i] = "pending"
    /\ batch_results' = [ batch_results EXCEPT ![i] = "raised" ]
    /\ UNCHANGED << batch_pc, batch_kind, batch_requests, batch_result >>

\* Most items of one batch whose call is cancelled.
MaxCancelled == 1

\* one item's own call raises asyncio.CancelledError, or is cancelled:
\* gather(return_exceptions=True) keeps the CancelledError as its result
ItemCancelled(i) ==
    /\ batch_pc = "gather"
    /\ i \in 1..Len(batch_results)
    /\ batch_results[i] = "pending"
    /\ Cardinality({ j \in 1..Len(batch_results) : batch_results[j] = "cancelled" })
          < MaxCancelled
    /\ batch_results' = [ batch_results EXCEPT ![i] = "cancelled" ]
    /\ UNCHANGED << batch_pc, batch_kind, batch_requests, batch_result >>

\* lines 605-637 and 320-356: every task is done; the results are split
BatchCollect ==
    /\ batch_pc = "gather"
    /\ \A i \in 1..Len(batch_results) : batch_results[i] # "pending"
    /\ batch_result' =
         Returned([ successful |->
                        batch_entries(batch_kind, batch_requests, batch_results, 1, FALSE),
                    failed |->
                        batch_entries(batch_kind, batch_requests, batch_results, 1, TRUE),
                    total_processed |-> Len(batch_results) ])
    /\ batch_pc' = "done"
    /\ UNCHANGED << batch_kind, batch_requests, batch_results >>

-----------------------------------------------------------------------------
(* TemplateManager.get_template_for_voice_profile: templates.py 411-458 *)

\* str.lower() of one character
LowerChar(c) ==
    CASE c = "A" -> "a"
      [] c = "B" -> "b"
      [] c = "C" -> "c"
      [] c = "D" -> "d"
      [] c = "E" -> "e"
      [] c = "F" -> "f"
      [] c = "G" -> "g"
      [] c = "H" -> "h"
      [] c = "I" -> "i"
      [] c = "J" -> "j"
      [] c = "K" -> "k"
      [] c = "L" -> "l"
      [] c = "M" -> "m"
      [] c = "N" -> "n"
      [] c = "O" -> "o"
      [] c = "P" -> "p"
      [] c = "Q" -> "q"
      [] c = "R" -> "r"
      [] c = "S" -> "s"
      [] c = "T" -> "t"
      [] c = "U" -> "u"
      [] c = "V" -> "v"
      [] c = "W" -> "w"
      [] c = "X" -> "x"
      [] c = "Y" -> "y"
      [] c = "Z" -> "z"
      [] OTHER -> c

\* _get_default_templates: lines 110-379; name is the sequence of its characters,
\* industry_tags the set of the listed tags
default_templates ==
    <<
      [ id |-> "professional_insight",
        content_type |-> "post",
        use_case |-> "thought_leadership",
        industry_tags |-> { "technology", "business", "marketing", "finance" },
        name |->
          << "P", "r", "o", "f", "e", "s", "s", "i", "o", "n", "a",
             "l", " ", "I", "n", "s", "i", "g", "h", "t" >> ],
      [ id |-> "personal_story",
        content_type |-> "post",
        use_case |-> "personal_story",
        industry_tags |-> { "leadership", "career", "entrepreneurship" },
        name |->
          << "P", "e", "r", "s", "o", "n", "a", "l", " ", "S", "t",
             "o", "r", "y" >> ],
      [ id |-> "industry_commentary",
        content_type |-> "post",
        use_case |-> "thought_leadership",
        industry_tags |-> { "technology", "business", "marketing", "finance" },
        name |->
          << "I", "n", "d", "u", "s", "t", "r", "y", " ", "C", "o",
             "m", "m", "e", "n", "t", "a", "r", "y" >> ],
      [ id |-> "career_milestone",
        content_type |-> "post",
        use_case |-> "personal_update",
        industry_tags |-> { "career", "leadership", "business" },
        name |->
          << "C", "a", "r", "e", "e", "r", " ", "M", "i", "l", "e",
             "s", "t", "o", "n", "e", " ", "A", "c", "h", "i", "e",
             "v", "e", "m", "e", "n", "t" >> ],
      [ id |-> "problem_solution",
        content_type |-> "post",
        use_case |-> "thought_leadership",
        industry_tags |-> { "business", "consulting", "strategy" },
        name |->
          << "P", "r", "o", "b", "l", "e", "m", "-", "S", "o", "l",
             "u", "t", "i", "o", "n", " ", "C", "a", "s", "e", " ",
             "S", "t", "u", "d", "y" >> ],
      [ id |-> "learning_development",
        content_type |-> "post",
        use_case |-> "personal_update",
        industry_tags |-> { "education", "career", "development" },
        name |->
          << "L", "e", "a", "r", "n", "i", "n", "g", " ", "&", " ",
             "D", "e", "v", "e", "l", "o", "p", "m", "e", "n", "t",
             " ", "U", "p", "d", "a", "t", "e" >> ],
      [ id |-> "quick_tip",
        content_type |-> "post",
        use_case |-> "professional_advice",
        industry_tags |-> { "productivity", "business", "career" },
        name |->
          << "Q", "u", "i", "c", "k", " ", "P", "r", "o", "f", "e",
             "s", "s", "i", "o", "n", "a", "l", " ", "T", "i", "p",
             "s" >> ],
      [ id |-> "networking_connection",
        content_type |-> "post",
        use_case |-> "networking",
        industry_tags |-> { "networking", "business", "career" },
        name |->
          << "N", "e", "t", "w", "o", "r", "k", "i", "n", "g", " ",
             "C", "o", "n", "n", "e", "c", "t", "i", "o", "n", " ",
             "R", "e", "q", "u", "e", "s", "t" >> ],
      [ id |-> "thought_leadership_long",
        content_type |-> "article",
        use_case |-> "thought_leadership",
        industry_tags |-> { "leadership", "strategy", "innovation" },
        name |->
          << "T", "h", "o", "u", "g", "h", "t", " ", "L", "e", "a",
             "d", "e", "r", "s", "h", "i", "p", " ", "A", "r", "t",
             "i", "c", "l", "e" >> ],
      [ id |-> "company_update",
        content_type |-> "post",
        use_case |-> "company_news",
        industry_tags |-> { "business", "company", "updates" },
        name |->
          << "C", "o", "m", "p", "a", "n", "y", " ", "N", "e", "w",
             "s", " ", "A", "n", "n", "o", "u", "n", "c", "e", "m",
             "e", "n", "t" >> ]
    >>

\* name.lower()
LowerChars(s) == [ i \in 1..Len(s) |-> LowerChar(s[i]) ]

\* sub in s, both sequences of characters
Contains(s, sub) ==
    \E i \in 0..(Len(s) - Len(sub)) : SubSeq(s, i + 1, i + Len(sub)) = sub

\* lines 423-452: the score of one template, in tenths of a point
template_score(template, sig) ==
    LET storytelling_score == Get(sig, "storytelling_style", 30)
        authority_score == Get(sig, "authority_tone", 40)
        personal_score == Get(sig, "personal_experience_sharing", 40)
        technical_score == Get(sig, "technical_depth", 30)
        use_case == template.use_case
        name == LowerChars(template.name)
        base ==
            IF use_case = "personal_story" /\ storytelling_score > 50 THEN 30
            ELSE IF use_case = "thought_leadership" /\ authority_score > 50 THEN 30
            ELSE IF use_case = "personal_update" /\ personal_score > 50 THEN 20
            ELSE IF use_case = "professional_advice" /\ technical_score > 40 THEN 20
            ELSE 10
    IN  base
        + (IF Contains(name, << "s", "t", "o", "r", "y" >>) /\ storytelling_score > 40
           THEN 15 ELSE 0)
        + (IF Contains(name, << "i", "n", "s", "i", "g", "h", "t" >>)
              /\ authority_score > 40
           THEN 15 ELSE 0)
        + (IF Contains(name, << "p", "e", "r", "s", "o", "n", "a", "l" >>)
              /\ personal_score > 40
           THEN 15 ELSE 0)

\* line 417: the templates of the requested content type, in list order
matching_templates_unfiltered(content_type) == default_templates
matching_templates(content_type) ==
    SelectSeq(default_templates, LAMBDA t : t.content_type = content_type)

\* line 457: max(template_scores, key=score) returns the first of the best
best_template_last(templates, sig) ==
    templates[CHOOSE i \in 1..Len(templates) :
        /\ \A k \in 1..Len(templates) :
              template_score(templates[k], sig) <= template_score(templates[i], sig)
        /\ \A k \in (i + 1)..Len(templates) :
              template_score(templates[k], sig) < template_score(templates[i], sig)]
best_template_lowest(templates, sig) ==
    templates[CHOOSE i \in 1..Len(templates) :
        /\ \A k \in 1..Len(templates) :
              template_score(templates[k], sig) >= template_score(templates[i], sig)
        /\ \A k \in 1..(i - 1) :
              template_score(templates[k], sig) > template_score(templates[i], sig)]
best_template(templates, sig) ==
    templates[CHOOSE i \in 1..Len(templates) :
        /\ \A k \in 1..Len(templates) :
              template_score(templates[k], sig) <= template_score(templates[i], sig)
        /\ \A k \in 1..(i - 1) :
              template_score(templates[k], sig) < template_score(templates[i], sig)]

\* lines 411-458
get_template_for_voice_profile_last(sig, content_type) ==
    IF matching_templates(content_type) = <<>>
    THEN default_templates[Len(default_templates)]
    ELSE best_template(matching_templates(content_type), sig)
get_template_for_voice_profile(sig, content_type) ==
    IF matching_templates(content_type) = <<>> THEN default_templates[1]
    ELSE best_template(matching_templates(content_type), sig)

\* the selector called on one signature and content type
GetTemplateForVoiceProfile(sig, content_type) ==
    /\ ~tpl_done
    /\ tpl_signature' = sig
    /\ tpl_content_type' = content_type
    /\ tpl_result' = get_template_for_voice_profile(sig, content_type)
    /\ tpl_done' = TRUE

-----------------------------------------------------------------------------
(* TemplateManager.get_templates, _is_cache_valid, clear_cache and         *)
(* create_custom_template: templates.py lines 13-108 and 477-528. Calls    *)
(* run as tasks of one event loop: a call runs until its database await,   *)
(* the database executes its statement, and the call resumes later.        *)

\* line 17: self.cache_ttl, in seconds
cache_ttl == 3600

\* a list, as a Python value
List(templates) == [ type |-> "list", val |-> templates ]

\* the three optional filters of one get_templates call
Filters(content_type, industry, use_case) ==
    [ content_type |-> content_type, industry |-> industry, use_case |-> use_case ]

\* a filter value formatted into an f-string: None gives "None"
Format(value) == IF value.type = "NoneType" THEN "None" ELSE value.val

\* "if content_type:" and the like: neither None nor the empty string
Truthy(value) == value.type = "str" /\ value.val # ""

\* line 36: f"templates_{content_type}_{industry}_{use_case}", one string: two
\* calls whose filters concatenate alike have the same key
cache_key(filters) ==
    "templates_" \o Format(filters.content_type) \o "_" \o Format(filters.industry)
        \o "_" \o Format(filters.use_case)

\* _is_cache_valid: lines 477-485
is_cache_valid_inclusive(cache_key_, now) ==
    /\ cache_key_ \in DOMAIN template_cache
    /\ cache_key_ \in DOMAIN cache_expiry
    /\ now <= cache_expiry[cache_key_]
is_cache_valid(cache_key_, now) ==
    /\ cache_key_ \in DOMAIN template_cache
    /\ cache_key_ \in DOMAIN cache_expiry
    /\ now < cache_expiry[cache_key_]

\* lines 90-96: the default templates with the given filters applied
filter_defaults(filters) ==
    SelectSeq(default_templates,
              LAMBDA t :
                  /\ Truthy(filters.content_type) =>
                        t.content_type = filters.content_type.val
                  /\ Truthy(filters.industry) => filters.industry.val \in t.industry_tags
                  /\ Truthy(filters.use_case) => t.use_case = filters.use_case.val)

\* the elements of s, last first
Reverse(s) == [ i \in 1..Len(s) |-> s[Len(s) + 1 - i] ]

\* lines 48-74: the rows the query selects when the database executes it:
\* WHERE content_type = $1 AND $2 = ANY(industry_tags) AND use_case = $3,
\* ORDER BY created_at DESC
select_content_templates(rows, filters) ==
    Reverse(SelectSeq(rows,
              LAMBDA t :
                  /\ Truthy(filters.content_type) =>
                        t.content_type = filters.content_type.val
                  /\ Truthy(filters.industry) => filters.industry.val \in t.industry_tags
                  /\ Truthy(filters.use_case) => t.use_case = filters.use_case.val))

\* the id the database gives its n-th row
RowId(n) ==
    CASE n = 1 -> "row_1"
      [] n = 2 -> "row_2"
      [] n = 3 -> "row_3"
      [] n = 4 -> "row_4"
      [] OTHER -> "row_5"

\* lines 503-518: the row the INSERT adds, with .get's defaults
inserted_row(rows, template_data) ==
    [ id |-> RowId(Len(rows) + 1),
      name |-> template_data.name,
      content_type |-> template_data.content_type,
      use_case |-> Get(template_data, "use_case", "general"),
      industry_tags |-> Get(template_data, "industry_tags", {}) ]

\* lines 510-513: template_data["name"] and the like raise KeyError
insert_arguments_raise(template_data) ==
    ~({ "name", "content_type", "template_structure" } \subseteq DOMAIN template_data)

\* a call not made yet
NoTask ==
    [ op |-> "none", pc |-> "idle", filters |-> Filters(None, None, None),
      data |-> EmptyDict, fetched |-> None, result |-> None ]

Event(ev, task, key, now) == [ ev |-> ev, task |-> task, key |-> key, now |-> now ]

\* lines 99-101: the list is cached under the key, expiring cache_ttl from now
StoreInCache(key, templates) ==
    /\ template_cache' = Update(template_cache, [ k \in { key } |-> templates ])
    /\ cache_expiry' = Update(cache_expiry, [ k \in { key } |-> tm_now + cache_ttl ])

\* get_templates, lines 35-80 and 86-104: the call up to its return on a
\* cache hit, up to the await of the query with a database connection, or up
\* to its return with the filtered default templates without one
GetTemplates(task, filters, db_connection) ==
    /\ tm_tasks[task].pc = "idle"
    /\ LET key == cache_key(filters)
           call == [ NoTask EXCEPT !.op = "get_templates", !.filters = filters ]
       IN  IF is_cache_valid(key, tm_now)
           THEN /\ tm_tasks' =
                       [ tm_tasks EXCEPT ![task] =
                           [ call EXCEPT !.pc = "done",
                                         !.result = List(template_cache[key]) ] ]
                /\ tm_log' = Append(tm_log, Event("hit", task, key, tm_now))
                /\ UNCHANGED << template_cache, cache_expiry >>
           ELSE IF db_connection
           THEN /\ tm_tasks' = [ tm_tasks EXCEPT ![task] = [ call EXCEPT !.pc = "query" ] ]
                /\ tm_log' = Append(tm_log, Event("miss", task, key, tm_now))
                /\ UNCHANGED << template_cache, cache_expiry >>
           ELSE /\ tm_tasks' =
                       [ tm_tasks EXCEPT ![task] =
                           [ call EXCEPT !.pc = "done",
                                         !.result = List(filter_defaults(filters)) ] ]
                /\ StoreInCache(key, filter_defaults(filters))
                /\ tm_log' = tm_log \o << Event("miss", task, key, tm_now),
                                          Event("store", task, key, tm_now) >>
    /\ UNCHANGED << tm_now, content_templates >>

\* line 79: the database executes the query of a suspended call, or fails
DbFetch(task, fails) ==
    /\ tm_tasks[task].op = "get_templates"
    /\ tm_tasks[task].pc = "query"
    /\ tm_tasks' =
           [ tm_tasks EXCEPT ![task].pc = "fetched",
                             ![task].fetched =
                                 IF fails THEN [ type |-> "error" ]
                                 ELSE List(select_content_templates(
                                              content_templates, tm_tasks[task].filters)) ]
    /\ tm_log' = Append(tm_log, Event(IF fails THEN "fetch_failed" ELSE "fetch", task,
                                      cache_key(tm_tasks[task].filters), tm_now))
    /\ UNCHANGED << template_cache, cache_expiry, tm_now, content_templates >>

\* lines 79-84 and 98-104: the call resumes with the rows, or with every
\* default template after a failed query, caches the list and returns it
ResumeGetTemplates(task) ==
    /\ tm_tasks[task].op = "get_templates"
    /\ tm_tasks[task].pc = "fetched"
    /\ LET key == cache_key(tm_tasks[task].filters)
           templates ==
               IF tm_tasks[task].fetched.type = "error" THEN default_templates
               ELSE tm_tasks[task].fetched.val
       IN  /\ StoreInCache(key, templates)
           /\ tm_tasks' = [ tm_tasks EXCEPT ![task].pc = "done",
                                            ![task].result = List(templates) ]
           /\ tm_log' = Append(tm_log, Event("store", task, key, tm_now))
    /\ UNCHANGED << tm_now, content_templates >>

\* clear_cache: lines 487-491
ClearCache(task) ==
    /\ tm_tasks[task].pc = "idle"
    /\ template_cache' = EmptyDict
    /\ cache_expiry' = EmptyDict
    /\ tm_tasks' = [ tm_tasks EXCEPT ![task] =
                        [ NoTask EXCEPT !.op = "clear_cache", !.pc = "done" ] ]
    /\ tm_log' = Append(tm_log, Event("clear", task, <<>>, tm_now))
    /\ UNCHANGED << tm_now, content_templates >>

\* create_custom_template, lines 496-518: the call up to its return of None
\* without a database connection or with incomplete data, or up to the await
\* of the INSERT
CreateCustomTemplate(task, template_data, db_connection) ==
    /\ tm_tasks[task].pc = "idle"
    /\ LET call == [ NoTask EXCEPT !.op = "create_custom_template",
                                   !.data = template_data ]
       IN  tm_tasks' =
               [ tm_tasks EXCEPT ![task] =
                   IF ~db_connection \/ insert_arguments_raise(template_data)
                   THEN [ call EXCEPT !.pc = "done" ]
                   ELSE [ call EXCEPT !.pc = "query" ] ]
    /\ tm_log' = Append(tm_log, Event("create", task, <<>>, tm_now))
    /\ UNCHANGED << template_cache, cache_expiry, tm_now, content_templates >>

\* line 508: the database executes the INSERT of a suspended call, or fails
DbInsert(task, fails) ==
    /\ tm_tasks[task].op = "create_custom_template"
    /\ tm_tasks[task].pc = "query"
    /\ IF fails
       THEN /\ tm_tasks' = [ tm_tasks EXCEPT ![task].pc = "fetched",
                                             ![task].fetched = [ type |-> "error" ] ]
            /\ UNCHANGED content_templates
       ELSE /\ tm_tasks' =
                   [ tm_tasks EXCEPT
                       ![task].pc = "fetched",
                       ![task].fetched =
                           Dict(inserted_row(content_templates, tm_tasks[task].data)) ]
            /\ content_templates' =
                   Append(content_templates,
                          inserted_row(content_templates, tm_tasks[task].data))
    /\ tm_log' = Append(tm_log, Event(IF fails THEN "insert_failed" ELSE "insert", task,
                                      <<>>, tm_now))
    /\ UNCHANGED << template_cache, cache_expiry, tm_now >>

\* lines 520-528: the call resumes, clears the cache and returns the row, or
\* returns None after a failed INSERT
ResumeCreateCustomTemplate(task) ==
    /\ tm_tasks[task].op = "create_custom_template"
    /\ tm_tasks[task].pc = "fetched"
    /\ IF tm_tasks[task].fetched.type = "error"
       THEN /\ tm_tasks' = [ tm_tasks EXCEPT ![task].pc = "done" ]
            /\ tm_log' = Append(tm_log, Event("not_created", task, <<>>, tm_now))
            /\ UNCHANGED << template_cache, cache_expiry >>
       ELSE /\ tm_tasks' = [ tm_tasks EXCEPT ![task].pc = "done",
                                             ![task].result = tm_tasks[task].fetched ]
            /\ template_cache' = EmptyDict
            /\ cache_expiry' = EmptyDict
            /\ tm_log' = tm_log \o << Event("clear", task, <<>>, tm_now),
                                      Event("created", task, <<>>, tm_now) >>
    /\ UNCHANGED << tm_now, content_templates >>

\* datetime.utcnow() moves on by seconds
Tick(seconds) ==
    /\ tm_now' = tm_now + seconds
    /\ UNCHANGED << template_cache, cache_expiry, content_templates, tm_tasks, tm_log >>

-----------------------------------------------------------------------------
(* Python floats: IEEE 754 doubles of the values the comparisons meet. A    *)
(* float is a sign and the natural number of units of 2^-FloatUnitBits it   *)
(* is worth, written in base 2^15, lowest digit first, without leading      *)
(* zeros; 0.0 has no sign. Every result is rounded to 53 significant bits,  *)
(* the nearest, a tie to the even one. The values met are 0.0 or 2^-60 and  *)
(* more apart from it, so that a quotient of them keeps its 53 bits above   *)
(* the unit.                                                                *)

BigBase == 32768
FloatUnitBits == 120

\* the digit i of a, 0 beyond its length
BigDigit(a, i) == IF i <= Len(a) THEN a[i] ELSE 0

RECURSIVE BigNorm(_)
\* a without leading zeros
BigNorm(a) ==
    IF a # <<>> /\ a[Len(a)] = 0 THEN BigNorm(SubSeq(a, 1, Len(a) - 1)) ELSE a

RECURSIVE BigAddFrom(_, _, _, _)
BigAddFrom(a, b, i, carry) ==
    IF i > Len(a) /\ i > Len(b) THEN (IF carry = 0 THEN <<>> ELSE << carry >>)
    ELSE LET x == BigDigit(a, i) + BigDigit(b, i) + carry
         IN  << x % BigBase >> \o BigAddFrom(a, b, i + 1, x \div BigBase)

BigAdd(a, b) == BigAddFrom(a, b, 1, 0)

RECURSIVE BigSubFrom(_, _, _, _)
BigSubFrom(a, b, i, borrow) ==
    IF i > Len(a) THEN <<>>
    ELSE LET x == BigDigit(a, i) - BigDigit(b, i) - borrow
         IN  << x % BigBase >> \o BigSubFrom(a, b, i + 1, IF x < 0 THEN 1 ELSE 0)

\* a - b for a >= b
BigSub(a, b) == BigNorm(BigSubFrom(a, b, 1, 0))

RECURSIVE BigLessFrom(_, _, _)
BigLessFrom(a, b, i) ==
    IF i = 0 THEN FALSE
    ELSE IF a[i] # b[i] THEN a[i] < b[i]
    ELSE BigLessFrom(a, b, i - 1)

\* a < b
BigLess(a, b) ==
    IF Len(a) # Len(b) THEN Len(a) < Len(b) ELSE BigLessFrom(a, b, Len(a))

RECURSIVE BigTimesFrom(_, _, _, _)
BigTimesFrom(a, m, i, carry) ==
    IF i > Len(a) THEN (IF carry = 0 THEN <<>> ELSE << carry >>)
    ELSE LET x == a[i] * m + carry
         IN  << x % BigBase >> \o BigTimesFrom(a, m, i + 1, x \div BigBase)

\* a * m for a small natural m
BigTimes(a, m) == BigNorm(BigTimesFrom(a, m, 1, 0))

RECURSIVE BigDivFrom(_, _, _, _)
\* the digits i..1 of the quotient, highest first turned lowest first, and
\* the remainder
BigDivFrom(a, d, i, rem) ==
    IF i = 0 THEN [ quotient |-> <<>>, remainder |-> rem ]
    ELSE LET x == rem * BigBase + a[i]
             rest == BigDivFrom(a, d, i - 1, x % d)
         IN  [ quotient |-> Append(rest.quotient, x \div d),
               remainder |-> rest.remainder ]

\* a divided by a small positive natural d: quotient and remainder
BigDiv(a, d) ==
    LET r == BigDivFrom(a, d, Len(a), 0)
    IN  [ quotient |-> BigNorm(r.quotient), remainder |-> r.remainder ]

RECURSIVE BitLength(_)
BitLength(n) == IF n = 0 THEN 0 ELSE 1 + BitLength(n \div 2)

\* the number of significant bits of a
BigBitLength(a) ==
    IF a = <<>> THEN 0 ELSE 15 * (Len(a) - 1) + BitLength(a[Len(a)])

RECURSIVE Pow2(_)
Pow2(n) == IF n = 0 THEN 1 ELSE 2 * Pow2(n - 1)

\* a * 2^bits
BigShiftLeft(a, bits) ==
    IF a = <<>> THEN <<>>
    ELSE [ i \in 1..(bits \div 15) |-> 0 ] \o BigTimes(a, Pow2(bits % 15))

\* the double nearest to a, and to a and a fraction of a unit more: the bits
\* below the 53 highest are cut off and, when they are more than half of the
\* lowest bit kept, or half of it and that bit is odd, one is added to it
FloatRound(a, more) ==
    IF BigBitLength(a) <= 53 THEN a
    ELSE LET bits == BigBitLength(a) - 53
             digits == bits \div 15
             kept == BigDiv(SubSeq(a, digits + 1, Len(a)), Pow2(bits % 15))
             guard_at == bits - 1
             guard_digit == a[guard_at \div 15 + 1]
             guard == (guard_digit \div Pow2(guard_at % 15)) % 2 = 1
             sticky ==
                 \/ more
                 \/ guard_digit % Pow2(guard_at % 15) # 0
                 \/ \E i \in 1..(guard_at \div 15) : a[i] # 0
             odd == kept.quotient[1] % 2 = 1
             up == guard /\ (sticky \/ odd)
         IN  BigShiftLeft(IF up THEN BigAdd(kept.quotient, << 1 >>) ELSE kept.quotient,
                          bits)

\* 0.0, 1.0, and the double nearest to num / den, as a literal is read
FloatZero == [ negative |-> FALSE, digits |-> <<>> ]
FloatOne == [ negative |-> FALSE, digits |-> BigShiftLeft(<< 1 >>, FloatUnitBits) ]
FloatOf(num, den) ==
    LET d == BigDiv(BigTimes(FloatOne.digits, IF num < 0 THEN -num ELSE num), den)
    IN  [ negative |-> num < 0, digits |-> FloatRound(d.quotient, d.remainder # 0) ]

\* x + y
FloatAdd(x, y) ==
    IF x.negative = y.negative
    THEN [ negative |-> x.negative, digits |-> FloatRound(BigAdd(x.digits, y.digits), FALSE) ]
    ELSE IF x.digits = y.digits THEN FloatZero
    ELSE IF BigLess(x.digits, y.digits)
    THEN [ negative |-> y.negative, digits |-> FloatRound(BigSub(y.digits, x.digits), FALSE) ]
    ELSE [ negative |-> x.negative, digits |-> FloatRound(BigSub(x.digits, y.digits), FALSE) ]

\* x - y
FloatSub(x, y) ==
    FloatAdd(x, [ negative |-> ~y.negative /\ y.digits # <<>>, digits |-> y.digits ])

\* abs(x)
FloatAbs(x) == [ negative |-> FALSE, digits |-> x.digits ]

\* x / n for a positive integer n
FloatDiv(x, n) ==
    LET d == BigDiv(x.digits, n)
    IN  [ negative |-> x.negative,
          digits |-> FloatRound(d.quotient, d.remainder # 0) ]

\* x > y
FloatGreater(x, y) ==
    IF x.negative # y.negative THEN y.negative
    ELSE IF x.negative THEN BigLess(x.digits, y.digits)
    ELSE BigLess(y.digits, x.digits)

-----------------------------------------------------------------------------
(* VoiceProfileComparison.compare_profiles: voice_profile.py lines 117-158 *)
(* VoiceAnalyzer.compare_voice_profiles: analyzer.py lines 444-478         *)
(* The scores of the signatures compared are hundredths in [0, 1].         *)

\* sum of f over the set S
SumOver(S, f) == SumSeq([ i \in 1..Cardinality(S) |-> f[SetToSeq(S)[i]] ])

\* the orders in which a set of strings can be iterated: the order depends
\* on the hashes of the strings, which differ from one process to the next
Orders(S) ==
    { order \in [ 1..Cardinality(S) -> S ] : \A d \in S : \E i \in DOMAIN order : order[i] = d }

\* the scores of a signature as floats: hundredths, those of [0, 1] and
\* those a signature can hold outside it
FloatScores == [ score \in (-Scale)..(2 * Scale) |-> FloatOf(score, Scale) ]

\* lines 142, 144 and 146: the literals 0.8, 0.6 and 0.4
RecommendationAbove ==
    [ very_similar |-> FloatOf(8, 10), similar |-> FloatOf(6, 10),
      moderate |-> FloatOf(4, 10) ]

RECURSIVE FloatSumFrom(_, _, _, _, _)
\* the items from i on added to the total so far. The plain sum rounds
\* total + x and goes on; the compensated one (Neumaier's) also collects what
\* each addition lost, (total - t) + x or (x - t) + total with the larger of
\* the two first, and adds it, unless it is 0.0, to the total at the end
FloatSumFrom(list, i, total, compensation, compensated) ==
    IF i > Len(list)
    THEN IF compensation # FloatZero THEN FloatAdd(total, compensation) ELSE total
    ELSE LET x == list[i]
             t == FloatAdd(total, x)
             lost ==
                 IF ~compensated THEN FloatZero
                 ELSE IF ~BigLess(total.digits, x.digits)
                 THEN FloatAdd(FloatSub(total, t), x)
                 ELSE FloatAdd(FloatSub(x, t), total)
         IN  FloatSumFrom(list, i + 1, t, FloatAdd(compensation, lost), compensated)

\* line 138: the builtin sum(similarities), the integer 0 plus the first item
\* and then the other items in the order of the list; it is the plain sum up
\* to CPython 3.11 and the compensated one from CPython 3.12 on
FloatSum(list, compensated) ==
    IF list = <<>> THEN FloatZero
    ELSE FloatSumFrom(list, 2, list[1], FloatZero, compensated)

\* lines 142-149
recommendation(overall_similarity) ==
    IF FloatGreater(overall_similarity, RecommendationAbove.very_similar)
    THEN "very_similar"
    ELSE IF FloatGreater(overall_similarity, RecommendationAbove.similar) THEN "similar"
    ELSE IF FloatGreater(overall_similarity, RecommendationAbove.moderate) THEN "moderate"
    ELSE "significant"

\* lines 117-158, all_dimensions being iterated in the given order and
\* summed by the given builtin; get_voice_dimension (line 43) reads a missing
\* dimension as 0.0; the constructor (line 111: ge=0.0, le=1.0) refuses an
\* overall_similarity below 0.0 or above 1.0
compare_profiles(profile1, profile2, order, compensated) ==
    LET all_dimensions == DOMAIN profile1 \cup DOMAIN profile2
        differences ==
            [ d \in all_dimensions |->
                FloatAbs(FloatSub(FloatScores[Get(profile1, d, 0)],
                                  FloatScores[Get(profile2, d, 0)])) ]
        dimension_similarities ==
            [ d \in all_dimensions |-> FloatSub(FloatOne, differences[d]) ]
        similarities == [ i \in DOMAIN order |-> dimension_similarities[order[i]] ]
        overall_similarity ==
            IF similarities # <<>>
            THEN FloatDiv(FloatSum(similarities, compensated), Len(similarities))
            ELSE FloatZero
    IN  IF \/ FloatGreater(FloatZero, overall_similarity)
           \/ FloatGreater(overall_similarity, FloatOne)
        THEN Raised("ValidationError")
        ELSE Returned([ overall_similarity |-> overall_similarity,
                        dimension_similarities |-> dimension_similarities,
                        differences |-> differences,
                        recommendation |-> recommendation(overall_similarity) ])

\* the ways the float that sklearn's cosine_similarity returns can lie to the
\* exact cosine: below it, on it, above it.  It is exact when a vector is all
\* zeros (0.0) and when neither vector has two scores that are not 0, each
\* being then divided by its own value; otherwise it depends on how the
\* library and its build round the norms, the quotients and the products
CosineRoundings(vector1, vector2, dims) ==
    IF \/ \A d \in dims : vector1[d] = 0
       \/ \A d \in dims : vector2[d] = 0
       \/ /\ Cardinality({ d \in dims : vector1[d] # 0 }) <= 1
          /\ Cardinality({ d \in dims : vector2[d] # 0 }) <= 1
    THEN { 0 }
    ELSE { -1, 0, 1 }

\* sklearn's cosine_similarity of two vectors indexed by dims: the exact
\* cosine dot / sqrt(norm1_sq * norm2_sq), a vector of norm 0 giving 0.0,
\* and the side of it on which the float returned lies
cosine_similarity(vector1, vector2, dims, rounding) ==
    [ dot |-> SumOver(dims, [ d \in dims |-> vector1[d] * vector2[d] ]),
      norm1_sq |-> SumOver(dims, [ d \in dims |-> vector1[d] * vector1[d] ]),
      norm2_sq |-> SumOver(dims, [ d \in dims |-> vector2[d] * vector2[d] ]),
      rounding |-> rounding ]

\* the float is exactly 1.0
CosineIsOne(c) ==
    /\ c.dot > 0
    /\ c.dot * c.dot = c.norm1_sq * c.norm2_sq
    /\ c.rounding = 0

\* analyzer.py lines 444-478
compare_voice_profiles(profile1, profile2, rounding) ==
    LET common_dimensions == DOMAIN profile1 \cap DOMAIN profile2
        difference(d) == FloatAbs(FloatSub(FloatScores[profile1[d]], FloatScores[profile2[d]]))
    IN  IF common_dimensions = {}
        THEN [ similarity |-> FloatZero, comparison |-> EmptyDict ]
        ELSE [ overall_similarity |->
                   cosine_similarity(profile1, profile2, common_dimensions, rounding),
               dimension_comparison |->
                   [ d \in common_dimensions |->
                       [ profile1 |-> FloatScores[profile1[d]],
                         profile2 |-> FloatScores[profile2[d]],
                         difference |-> difference(d),
                         similarity |-> FloatSub(FloatOne, difference(d)) ] ],
               common_dimensions |-> Cardinality(common_dimensions) ]

\* compare_profiles called on a pair of signatures, in a process that
\* iterates the dimensions in the given order, on an interpreter with the
\* given builtin sum
CompareProfiles(profile1, profile2, order, compensated) ==
    /\ ~cmp_done
    /\ cmp_profiles = None
    /\ cmp_profile1' = profile1
    /\ cmp_profile2' = profile2
    /\ cmp_profiles' = compare_profiles(profile1, profile2, order, compensated)
    /\ UNCHANGED << cmp_voice, cmp_done >>

\* compare_voice_profiles called on the same pair, with a library that
\* rounds the cosine to the given side
CompareVoiceProfiles(rounding) ==
    /\ ~cmp_done
    /\ cmp_profiles # None
    /\ cmp_voice' = compare_voice_profiles(cmp_profile1, cmp_profile2, rounding)
    /\ cmp_done' = TRUE
    /\ UNCHANGED << cmp_profile1, cmp_profile2, cmp_profiles >>

-----------------------------------------------------------------------------
(* VoiceProfile: voice_profile.py lines 7-104, and                           *)
(* VoiceAnalyzer.apply_industry_adjustments: analyzer.py lines 428-442       *)

\* Most operations applied to one profile after its creation.
MaxProfileSteps == 3

RECURSIVE Pow10(_)
Pow10(n) == IF n = 0 THEN 1 ELSE 10 * Pow10(n - 1)

\* One unit of score of a profile: a multiplier has one decimal, so after
\* MaxProfileSteps adjustments a score is still a whole number of
\* 1 / ProfileScale.
ProfileScale == Scale * Pow10(MaxProfileSteps)

\* a signature in hundredths, in units of 1 / ProfileScale
ToProfileScale(sig) == [ k \in DOMAIN sig |-> sig[k] * (ProfileScale \div Scale) ]

\* INDUSTRY_VOICE_ADJUSTMENTS: config.py lines 140-166, multipliers in tenths
INDUSTRY_VOICE_ADJUSTMENTS ==
    [ technology |->
          [ technical_depth |-> 12, formality_level |-> 9, industry_jargon |-> 13 ],
      finance |->
          [ formality_level |-> 13, authority_tone |-> 12, technical_depth |-> 11 ],
      healthcare |->
          [ empathy_level |-> 14, technical_depth |-> 12, authority_tone |-> 11 ],
      marketing |->
          [ emotional_expressiveness |-> 13, storytelling_style |-> 12,
            call_to_action_style |-> 14 ],
      consulting |->
          [ authority_tone |-> 12, explanation_style |-> 13,
            question_asking_tendency |-> 12 ] ]

\* analyzer.py lines 431-442
apply_industry_adjustments(sig, industry) ==
    IF industry \notin DOMAIN INDUSTRY_VOICE_ADJUSTMENTS THEN sig
    ELSE LET adjustments == INDUSTRY_VOICE_ADJUSTMENTS[industry]
         IN  [ dimension \in DOMAIN sig |->
                 IF dimension \in DOMAIN adjustments
                 THEN Max(0, Min(ProfileScale,
                                (sig[dimension] * adjustments[dimension]) \div 10))
                 ELSE sig[dimension] ]

\* voice_profile.py line 47: self.voice_signature.update(new_signature)
update_voice_signature(sig, new_signature) == Update(sig, new_signature)

\* VoiceProfile.from_analysis_result on the fuser's signature: lines 27-39
FromAnalysisResult(as) ==
    /\ vp_pc = "none"
    /\ vp_pc' = "created"
    /\ vp_voice_signature' = ToProfileScale(create_voice_signature(as))
    /\ vp_created_at' = Number(vp_clock)
    /\ vp_clock' = vp_clock + 1
    /\ vp_log' = Append(vp_log, "from_analysis_result")
    /\ UNCHANGED << vp_updated_at, vp_adjusted >>

\* The dicts a caller holds and can pass on: the profile's voice_signature,
\* and the one the last adjustment returned.
HeldSignatures ==
    { "profile" } \cup (IF vp_adjusted.type = "dict" THEN { "returned" } ELSE {})

\* apply_industry_adjustments called on a dict the caller holds. For a known
\* industry it returns an adjusted copy (line 435) and writes nothing to the
\* profile; for an unknown one it returns its argument itself (line 432),
\* which is the profile's own dict when that was passed
ApplyIndustryAdjustments(held, industry) ==
    /\ vp_pc = "created"
    /\ LET voice_signature_ ==
               IF held = "profile" THEN vp_voice_signature ELSE vp_adjusted.val
       IN  vp_adjusted' =
               [ type |-> "dict",
                 val |-> apply_industry_adjustments(voice_signature_, industry),
                 is_profile |->
                     /\ industry \notin DOMAIN INDUSTRY_VOICE_ADJUSTMENTS
                     /\ \/ held = "profile"
                        \/ vp_adjusted.type = "dict" /\ vp_adjusted.is_profile ]
    /\ vp_log' = Append(vp_log, "apply_industry_adjustments")
    /\ UNCHANGED << vp_pc, vp_voice_signature, vp_created_at, vp_updated_at, vp_clock >>

\* VoiceProfile.update_voice_signature: lines 45-48. The dict is updated in
\* place, so a returned dict that is the profile's own shows the new scores
UpdateVoiceSignature(new_signature) ==
    /\ vp_pc = "created"
    /\ vp_voice_signature' = update_voice_signature(vp_voice_signature, new_signature)
    /\ vp_adjusted' =
           IF vp_adjusted.type = "dict" /\ vp_adjusted.is_profile
           THEN [ vp_adjusted EXCEPT !.val = vp_voice_signature' ]
           ELSE vp_adjusted
    /\ vp_updated_at' = Number(vp_clock)
    /\ vp_clock' = vp_clock + 1
    /\ vp_log' = Append(vp_log, "update_voice_signature")
    /\ UNCHANGED << vp_pc, vp_created_at >>

-----------------------------------------------------------------------------
(* The post-processing steps applied one after another *)

\* a content enters post-processing
StartPostProcessing(content, content_type, industry) ==
    /\ pp_pc = "idle"
    /\ pp_pc' = "ready"
    /\ pp_content' = content
    /\ pp_content_type' = content_type
    /\ pp_industry' = industry
    /\ UNCHANGED pp_log

\* one step op has turned the content into after
PostStep(op, after) ==
    /\ pp_pc = "ready"
    /\ pp_log' = Append(pp_log, [ op |-> op, before |-> pp_content, after |-> after ])
    /\ pp_content' = after
    /\ UNCHANGED << pp_pc, pp_content_type, pp_industry >>

AddLineBreaks == PostStep("add_line_breaks", add_line_breaks(pp_content))

OptimizeHashtags ==
    PostStep("optimize_hashtags", optimize_hashtags(pp_content, pp_industry))

EnsureCallToAction(selected_cta) ==
    PostStep("ensure_call_to_action",
             ensure_call_to_action(pp_content, pp_content_type, selected_cta))

FormatForLinkedin ==
    PostStep("format_for_linkedin", format_for_linkedin(pp_content, pp_content_type))

\* _optimize_content, lines 408-424: the four steps in their order
OptimizeContent(selected_cta) ==
    PostStep("optimize_content",
             optimize_content(pp_content, pp_content_type, pp_industry, selected_cta))

-----------------------------------------------------------------------------
(* Inputs of generate_content *)

\* Largest max_variations preference tried.
MaxVariationsRequested == 6

\* Answers of the provider to the primary call: it raises, answers with no
\* content, with an empty or blank content, or with a text.
PrimaryResponses ==
    { ProviderError, None, Str(<<>>), Str(<< " ", "\n" >>), Str(TextA),
      Str(<< " " >> \o TextLong \o << "\n" >>) }

\* Answers of the provider to a follow-up call: it raises, or answers with
\* one of two texts.
VariationResponses ==
    { ProviderError, Str(TextB), Str(<< " " >> \o TextA \o << " " >>) }

GenSignatures ==
    { EmptyDict,
      [ emotional_expressiveness |-> 90, humor_usage |-> 80, storytelling_style |-> 90,
        formality_level |-> 20, personal_experience_sharing |-> 60 ] }

GenUserProfiles == { EmptyDict, [ industry |-> "technology" ] }

\* preferences that ask for few follow-up calls or none
FewVariations ==
    { EmptyDict,
      [ generate_variations |-> FALSE, max_variations |-> 3 ],
      [ generate_variations |-> TRUE, max_variations |-> 1 ] }

\* preferences that ask for variations, with every count tried and without
ManyVariations ==
    { [ generate_variations |-> TRUE ] }
    \cup { [ generate_variations |-> TRUE, max_variations |-> n ] :
              n \in (-1)..MaxVariationsRequested }

GenRequests ==
    { [ content_type |-> ct, voice_signature |-> sig, user_profile |-> up,
        preferences |-> prefs ] :
        ct \in { "post", "article" }, sig \in GenSignatures, up \in GenUserProfiles,
        prefs \in FewVariations }
    \cup { [ content_type |-> "post", voice_signature |-> EmptyDict,
             user_profile |-> EmptyDict, preferences |-> prefs ] :
             prefs \in ManyVariations }

-----------------------------------------------------------------------------
(* Inputs of the batch operations *)

\* batches of every size up to one more than the largest accepted
BatchSizes == 0..(max_batch_size + 1)

\* request lists: every request complete, or some lacking a required key
BatchRequests ==
    UNION { [ 1..n -> { "complete", "missing_key" } ] : n \in BatchSizes }

\* urls, all different
AudioUrls ==
    << "url_1", "url_2", "url_3", "url_4", "url_5", "url_6", "url_7", "url_8", "url_9",
       "url_10", "url_11" >>

\* url lists: of different urls, and short ones of one url given several times
BatchAudioUrls ==
    { SubSeq(AudioUrls, 1, n) : n \in BatchSizes }
        \cup { [ i \in 1..n |-> "url_1" ] : n \in 2..3 }

-----------------------------------------------------------------------------
(* Inputs of the template selector and of the comparisons *)

TemplateKeys ==
    { "storytelling_style", "authority_tone", "personal_experience_sharing",
      "technical_depth" }

\* below both thresholds, between them, above both
TemplateValues == { 20, 45, 70, 80 }

\* every mapping over every subset of the four dimensions the selector reads
TemplateSignatures ==
    { [ k \in K |-> f[k] ] : K \in SUBSET TemplateKeys, f \in [ TemplateKeys -> TemplateValues ] }

\* content types with templates, and without
TemplateContentTypes == { "post", "article", "story", "carousel" }

CompareKeys == { "formality_level", "humor_usage", "empathy_level" }

\* scores whose differences and sums are the same in floats as in exact
\* arithmetic, and scores for which they are not: 1.0 - abs(0.2 - 0.6) is
\* 0.6000000000000001
CompareValues == { 0, 30 }
RoundedValues == { 20, 60 }

\* scores outside [0, 1], which update_voice_signature lets into a profile
UnboundedValues == { -20, 150 }

\* the empty signature, all-zero ones, partial ones, full ones; signatures
\* of one and of three scores whose differences are rounded; and signatures
\* of one score outside [0, 1]
CompareSignatures ==
    { [ k \in K |-> f[k] ] : K \in SUBSET CompareKeys, f \in [ CompareKeys -> CompareValues ] }
        \cup { [ k \in K |-> f[k] ] :
                 K \in { { "formality_level" }, CompareKeys },
                 f \in [ CompareKeys -> RoundedValues ] }
        \cup { [ k \in { "formality_level" } |-> score ] : score \in UnboundedValues }

-----------------------------------------------------------------------------
(* Inputs of the post-processing steps *)

\* Most post-processing steps applied to one content.
MaxPostSteps == 2

Tagged1 == TextA \o << " ", "#", "Leadership" >>
Tagged2 == TextA \o << " ", "#", "Innovation", " ", "#", "TechTrends" >>
Tagged2Same == TextA \o << " ", "#", "Leadership", " ", "#", "Leadership" >>
Tagged3 ==
    TextA \o << " ", "#", "Leadership", " ", "#", "Consulting", " ", "#",
                "BusinessStrategy" >>
Tagged4Question ==
    << "What", " ", "do", " ", "you", " ", "think", "?", " ", "#", "Leadership", " ",
       "#", "Innovation", " ", "#", "Growth", " ", "#", "Teams" >>
Tagged4Trailing ==
    TextA \o << " ", "#", "Leadership", " ", "#", "Innovation", " ", "#", "Growth", " ",
                "#", "Teams", "\n", "\n", "Are", " ", "you", " ", "ready", "?" >>
Tagged6 ==
    TextA \o << "\n", "#", "A", " ", "#", "B", " ", "#", "C", " ", "#", "D", " ", "#",
                "E", " ", "#", "F" >>
TaggedGlued == << "We", " ", "help", "#", "Leadership" >>

PostContents ==
    { <<>>, TextA, TextLong, Tagged1, Tagged2, Tagged2Same, Tagged3, Tagged4Question,
      Tagged4Trailing, Tagged6, TaggedGlued }

PostContentTypes == { "post", "article", "story" }

\* industries with suggestions of their own, in either case, and without
PostIndustries == { "technology", "Technology", "consulting", "retail" }

(* Inputs of the template cache *)

\* Most calls of get_templates and create_custom_template in one run.
MaxTasks == 3

\* Most advances of the clock, each of the time-to-live.
MaxTicks == 1

Tasks == 1..MaxTasks

\* filters of concurrent calls: a content type, and an industry
CacheFilters ==
    { Filters(Str("article"), None, None), Filters(None, Str("finance"), None) }

\* filters of calls made one after another: none, each one alone, one no
\* template satisfies, all three, and three others whose key is the same
LookupFilters ==
    { Filters(None, None, None),
      Filters(Str("article"), None, None),
      Filters(None, Str("finance"), None),
      Filters(None, None, Str("personal_story")),
      Filters(Str("carousel"), None, None),
      Filters(Str("post"), Str("business"), Str("thought_leadership")),
      Filters(Str("post"), Str("business_thought"), Str("leadership")) }

\* template data with every required key, and without a name
CompleteTemplate ==
    [ name |-> << "C", "u", "s", "t", "o", "m" >>, content_type |-> "article",
      template_structure |-> "{{hook}}", industry_tags |-> { "finance" } ]
CustomTemplates ==
    { CompleteTemplate, [ content_type |-> "post", template_structure |-> "{{hook}}" ] }

\* create_custom_template's arguments: with and without a connection
CreateArguments ==
    { << CompleteTemplate, TRUE >>, << CompleteTemplate, FALSE >> }
    \cup { << template_data, TRUE >> : template_data \in CustomTemplates }

\* the table holds one row before the first call
InitialRows ==
    << [ id |-> RowId(1), name |-> << "S", "t", "o", "r", "y" >>, content_type |-> "post",
         use_case |-> "personal_story", industry_tags |-> { "finance" } ] >>

(* Inputs of the voice match *)

RECURSIVE Repeat(_, _)
\* text * n
Repeat(text, n) == IF n = 0 THEN <<>> ELSE text \o Repeat(text, n - 1)

\* Contents with no indicator, with formal, casual, story and personal
\* indicators below and above the counts at which the normalized values are
\* capped (5, 5, 10 and 20).
VoiceMatchContents ==
    { <<>>, TextA, TextLong,
      << "Furthermore", " ", "we", " ", "agree", ".", " ", "Therefore", " ", "really",
         "." >>,
      Repeat(<< "Moreover", " ", "then", " " >>, 6),
      Repeat(<< "really", " ", "pretty", " " >>, 2),
      Repeat(<< "totally", " ", "super", " ", "btw", " " >>, 2),
      Repeat(<< "When", " ", "I", " ", "remember", " ", "my", " ", "time", ".", " " >>, 4),
      Repeat(<< "I", " ", "me", " ", "our", " " >>, 7) }

\* Signatures whose three compared dimensions are each missing, 0, 0.5 or 1,
\* or outside [0, 1] (-0.5, 2.5): the method takes any Dict[str, float].
VoiceMatchSignatures ==
    { [ k \in K |-> v[k] ] :
        K \in SUBSET { "formality_level", "storytelling_style",
                       "personal_experience_sharing" },
        v \in [ { "formality_level", "storytelling_style",
                  "personal_experience_sharing" } -> { -50, 0, 50, Scale, 250 } ] }

(* Inputs of the profile operations *)

\* Fuser inputs a profile is created from.
ProfileAnalyses ==
    { <<>>, << [ k \in Dimensions |-> 90 ] >>, << [ k \in Dimensions |-> 30 ] >>,
      << [ k \in Dimensions |-> 150 ] >> }

\* one known industry per table row, and an unknown one
ProfileIndustries == DOMAIN INDUSTRY_VOICE_ADJUSTMENTS \cup { "retail" }

\* New scores merged into a profile: inside [0, 1], above it, below it, for
\* a dimension outside the canonical ones, and none.
ProfileUpdates ==
    { ToProfileScale(m) :
        m \in { EmptyDict,
                [ k \in { "formality_level", "technical_depth" } |-> 70 ],
                [ k \in { "formality_level" } |-> 150 ],
                [ k \in { "humor_usage" } |-> -20 ],
                [ k \in { "custom_dimension" } |-> 50 ] } }

-----------------------------------------------------------------------------
(* Specifications *)

vars == << fuseVars, confVars, avVars, genVars, batchVars, tplVars, cmpVars, ppVars, vpVars, vmVars,
       tmVars >>

InitFuse ==
    /\ analyses = <<>>
    /\ voice_signature = EmptyDict
    /\ fuse_done = FALSE

InitConf ==
    /\ cs_sig = EmptyDict
    /\ cs_lo = NoScore
    /\ cs_hi = NoScore
    /\ cs_done = FALSE

\* VoiceAnalyzer._initialize_models: the tagger and the client may be missing
InitAnalyze ==
    /\ av_pc = "idle"
    /\ conversation_data = <<>>
    /\ full_text = None
    /\ av_partial = <<>>
    /\ av_steps = <<>>
    /\ av_failed = {}
    /\ av_response = None
    /\ av_signature = EmptyDict
    /\ av_result = None
    /\ nlp \in BOOLEAN
    /\ av_client \in BOOLEAN

\* ContentGenerator._initialize_openai: the client may be missing
InitGen ==
    /\ gc_pc = "idle"
    /\ gc_request = None
    /\ gc_client \in BOOLEAN
    /\ gc_calls = <<>>
    /\ gc_responses = <<>>
    /\ primary_content = None
    /\ variations = <<>>
    /\ gc_steps = <<>>
    /\ gc_result = None

InitBatch ==
    /\ batch_pc = "idle"
    /\ batch_kind = "none"
    /\ batch_requests = <<>>
    /\ batch_results = <<>>
    /\ batch_result = None

InitTemplate ==
    /\ tpl_signature = EmptyDict
    /\ tpl_content_type = "post"
    /\ tpl_result = None
    /\ tpl_done = FALSE

InitCompare ==
    /\ cmp_profile1 = EmptyDict
    /\ cmp_profile2 = EmptyDict
    /\ cmp_profiles = None
    /\ cmp_voice = None
    /\ cmp_done = FALSE

InitPost ==
    /\ pp_pc = "idle"
    /\ pp_content = <<>>
    /\ pp_content_type = "post"
    /\ pp_industry = "business"
    /\ pp_log = <<>>

InitVoiceMatch ==
    /\ vm_content = <<>>
    /\ vm_voice_signature = EmptyDict
    /\ vm_score = [ num |-> 0, den |-> 1 ]
    /\ vm_done = FALSE

\* no profile yet
\* lines 13-17: both dictionaries empty; no call made yet
InitCache ==
    /\ template_cache = EmptyDict
    /\ cache_expiry = EmptyDict
    /\ tm_now = 0
    /\ content_templates = InitialRows
    /\ tm_tasks = [ task \in Tasks |-> NoTask ]
    /\ tm_log = <<>>

InitProfile ==
    /\ vp_pc = "none"
    /\ vp_voice_signature = EmptyDict
    /\ vp_adjusted = None
    /\ vp_created_at = None
    /\ vp_updated_at = None
    /\ vp_clock = 0
    /\ vp_log = <<>>

Init ==
    /\ InitFuse /\ InitConf /\ InitAnalyze /\ InitGen
    /\ InitBatch /\ InitTemplate /\ InitCompare /\ InitPost /\ InitProfile
    /\ InitVoiceMatch /\ InitCache

\* every component loaded: the tagger and both clients are there
InitLoaded == Init /\ nlp /\ av_client /\ gc_client

\* The fuser called on any tuple of partial mappings.
NextFuse ==
    /\ ~fuse_done
    /\ \E as \in TuplesUpTo(PartialMappings, MaxAnalyses) : CreateVoiceSignature(as)
    /\ UNCHANGED << confVars, avVars, genVars, batchVars, tplVars, cmpVars, ppVars, vpVars, vmVars,
       tmVars >>

SpecFuse == InitLoaded /\ [][NextFuse]_vars

\* The scorer called on one signature with two ordered inputs.
NextConf ==
    /\ ~cs_done
    /\ \E sig \in ConfSignatures, a \in TextLengths, c \in 0..MaxConfTurns :
         \E b \in { x \in TextLengths : a <= x }, d \in c..MaxConfTurns :
            CalculateConfidenceScore(sig, a, c, b, d)
    /\ UNCHANGED << fuseVars, avVars, genVars, batchVars, tplVars, cmpVars, ppVars, vpVars, vmVars,
       tmVars >>

SpecConf == InitLoaded /\ [][NextConf]_vars

notAnalyzeVars ==
    << fuseVars, confVars, genVars, batchVars, tplVars, cmpVars, ppVars, vpVars, vmVars,
       tmVars >>

\* One analyze_voice call on any conversation, with or without the tagger
\* and the provider client.
NextAnalyze ==
    \/ /\ av_pc = "idle"
       /\ \E cd \in TuplesUpTo(ConversationTurns, MaxTurns) : AnalyzeVoice(cd)
       /\ UNCHANGED notAnalyzeVars
    \/ AnalyzeLinguisticPatterns /\ UNCHANGED notAnalyzeVars
    \/ AnalyzeCommunicationStyle /\ UNCHANGED notAnalyzeVars
    \/ AnalyzeEmotionalPatterns /\ UNCHANGED notAnalyzeVars
    \/ AiEnhancedAnalysis /\ UNCHANGED notAnalyzeVars
    \/ FuseAnalyses /\ UNCHANGED notAnalyzeVars
    \/ ScoreAndReturn /\ UNCHANGED notAnalyzeVars

\* the generator's client is there
InitAnalyzeOnly == Init /\ gc_client

SpecAnalyze == InitAnalyzeOnly /\ [][NextAnalyze]_vars

notGenVars == << fuseVars, confVars, avVars, batchVars, tplVars, cmpVars, ppVars, vpVars, vmVars,
       tmVars >>

\* One generate_content call on any request, with any answers of the provider.
NextGen ==
    \/ /\ gc_pc = "idle"
       /\ \E request \in GenRequests : GenerateContent(request)
       /\ UNCHANGED notGenVars
    \/ /\ gc_pc = "primary"
       /\ \E response \in PrimaryResponses : PrimaryResponse(response)
       /\ UNCHANGED notGenVars
    \/ /\ gc_pc = "variation"
       /\ \E response \in VariationResponses : VariationResponse(response)
       /\ UNCHANGED notGenVars
    \/ /\ VariationSleepDone
       /\ UNCHANGED notGenVars
    \/ /\ gc_pc = "optimize"
       /\ \E selected_cta \in cta_options(gc_request.content_type) :
             OptimizeAndReturn(selected_cta)
       /\ UNCHANGED notGenVars

\* the analyzer's tagger and client are there
InitGenOnly == Init /\ nlp /\ av_client

SpecGen == InitGenOnly /\ [][NextGen]_vars

notBatchVars == << fuseVars, confVars, avVars, genVars, tplVars, cmpVars, ppVars, vpVars, vmVars,
       tmVars >>

\* One batch call of either kind; the items' own calls end in any order.
NextBatch ==
    \/ /\ batch_pc = "idle"
       /\ \E requests \in BatchRequests : BatchGenerateContent(requests)
       /\ UNCHANGED notBatchVars
    \/ /\ batch_pc = "idle"
       /\ \E audio_urls \in BatchAudioUrls : BatchTranscribe(audio_urls)
       /\ UNCHANGED notBatchVars
    \/ /\ batch_pc = "gather"
       /\ \E i \in 1..max_batch_size : ItemReturns(i)
       /\ UNCHANGED notBatchVars
    \/ /\ batch_pc = "gather"
       /\ \E i \in 1..max_batch_size : ItemRaises(i)
       /\ UNCHANGED notBatchVars
    \/ /\ batch_pc = "gather"
       /\ \E i \in 1..max_batch_size : ItemCancelled(i)
       /\ UNCHANGED notBatchVars
    \/ BatchCollect /\ UNCHANGED notBatchVars

SpecBatch == InitLoaded /\ [][NextBatch]_vars

\* The selector called on any signature and content type.
NextTemplate ==
    /\ ~tpl_done
    /\ \E sig \in TemplateSignatures, content_type \in TemplateContentTypes :
          GetTemplateForVoiceProfile(sig, content_type)
    /\ UNCHANGED << fuseVars, confVars, avVars, genVars, batchVars, cmpVars, ppVars, vpVars, vmVars,
       tmVars >>

SpecTemplate == InitLoaded /\ [][NextTemplate]_vars

notCompareVars ==
    << fuseVars, confVars, avVars, genVars, batchVars, tplVars, ppVars, vpVars, vmVars,
       tmVars >>

\* The comparisons called on any pair of signatures.
NextCompare ==
    \/ /\ cmp_profiles = None
       /\ \E profile1 \in CompareSignatures, profile2 \in CompareSignatures :
             \E order \in Orders(DOMAIN profile1 \cup DOMAIN profile2),
                compensated \in BOOLEAN :
                 CompareProfiles(profile1, profile2, order, compensated)
       /\ UNCHANGED notCompareVars
    \/ /\ cmp_profiles # None
       /\ \E rounding \in CosineRoundings(cmp_profile1, cmp_profile2,
                                           DOMAIN cmp_profile1 \cap DOMAIN cmp_profile2) :
             CompareVoiceProfiles(rounding)
       /\ UNCHANGED notCompareVars

SpecCompare == InitLoaded /\ [][NextCompare]_vars

notPostVars ==
    << fuseVars, confVars, avVars, genVars, batchVars, tplVars, cmpVars, vpVars,
       vmVars,
       tmVars >>

\* Any content, then post-processing steps in any order, or all four at once.
NextPost ==
    \/ /\ pp_pc = "idle"
       /\ \E content \in PostContents, content_type \in PostContentTypes,
             industry \in PostIndustries :
             StartPostProcessing(content, content_type, industry)
       /\ UNCHANGED notPostVars
    \/ /\ Len(pp_log) < MaxPostSteps
       /\ AddLineBreaks
       /\ UNCHANGED notPostVars
    \/ /\ Len(pp_log) < MaxPostSteps
       /\ OptimizeHashtags
       /\ UNCHANGED notPostVars
    \/ /\ Len(pp_log) < MaxPostSteps
       /\ pp_pc = "ready"
       /\ \E selected_cta \in cta_options(pp_content_type) :
             EnsureCallToAction(selected_cta)
       /\ UNCHANGED notPostVars
    \/ /\ Len(pp_log) < MaxPostSteps
       /\ FormatForLinkedin
       /\ UNCHANGED notPostVars
    \/ /\ Len(pp_log) < MaxPostSteps
       /\ pp_pc = "ready"
       /\ \E selected_cta \in cta_options(pp_content_type) :
             OptimizeContent(selected_cta)
       /\ UNCHANGED notPostVars

SpecPost == InitLoaded /\ [][NextPost]_vars

notProfileVars ==
    << fuseVars, confVars, avVars, genVars, batchVars, tplVars, cmpVars, ppVars, vmVars,
       tmVars >>

\* A profile created from a fused signature, then adjustments and updates in
\* any order.
NextProfile ==
    \/ /\ \E as \in ProfileAnalyses : FromAnalysisResult(as)
       /\ UNCHANGED notProfileVars
    \/ /\ Len(vp_log) <= MaxProfileSteps
       /\ \E held \in HeldSignatures, industry \in ProfileIndustries :
             ApplyIndustryAdjustments(held, industry)
       /\ UNCHANGED notProfileVars
    \/ /\ Len(vp_log) <= MaxProfileSteps
       /\ \E new_signature \in ProfileUpdates : UpdateVoiceSignature(new_signature)
       /\ UNCHANGED notProfileVars

SpecProfile == InitLoaded /\ [][NextProfile]_vars

\* The voice match called on any content and signature.
NextVoiceMatch ==
    /\ \E content \in VoiceMatchContents, sig \in VoiceMatchSignatures :
          CalculateVoiceMatchScore(content, sig)
    /\ UNCHANGED << fuseVars, confVars, avVars, genVars, batchVars, tplVars, cmpVars,
                    ppVars, vpVars, tmVars >>

SpecVoiceMatch == InitLoaded /\ [][NextVoiceMatch]_vars

notCacheVars ==
    << fuseVars, confVars, avVars, genVars, batchVars, tplVars, cmpVars, ppVars, vpVars,
       vmVars >>

\* a call not made yet whose predecessors have all been made
NextTask(task) ==
    /\ tm_tasks[task].pc = "idle"
    /\ \A earlier \in 1..(task - 1) : tm_tasks[earlier].pc # "idle"

\* Calls of get_templates and create_custom_template made concurrently on
\* one manager, the database answering in any order, the clock moving on in
\* between.
NextCache ==
    \/ /\ \E task \in Tasks, filters \in CacheFilters, db_connection \in BOOLEAN :
              NextTask(task) /\ GetTemplates(task, filters, db_connection)
       /\ UNCHANGED notCacheVars
    \/ /\ \E task \in Tasks, fails \in BOOLEAN : DbFetch(task, fails)
       /\ UNCHANGED notCacheVars
    \/ /\ \E task \in Tasks : ResumeGetTemplates(task)
       /\ UNCHANGED notCacheVars
    \/ /\ \E task \in Tasks :
              NextTask(task) /\ CreateCustomTemplate(task, CompleteTemplate, TRUE)
       /\ UNCHANGED notCacheVars
    \/ /\ \E task \in Tasks, fails \in BOOLEAN : DbInsert(task, fails)
       /\ UNCHANGED notCacheVars
    \/ /\ \E task \in Tasks : ResumeCreateCustomTemplate(task)
       /\ UNCHANGED notCacheVars
    \/ /\ tm_now < MaxTicks * cache_ttl
       /\ Tick(cache_ttl)
       /\ UNCHANGED notCacheVars

SpecCache == InitLoaded /\ [][NextCache]_vars

\* a call not made yet, every call before it having returned
NextCall(task) ==
    /\ tm_tasks[task].pc = "idle"
    /\ \A earlier \in 1..(task - 1) : tm_tasks[earlier].pc = "done"

\* Calls of get_templates, create_custom_template and clear_cache made one
\* after another on one manager, with any filters and arguments.
NextLookup ==
    \/ /\ \E task \in Tasks, filters \in LookupFilters, db_connection \in BOOLEAN :
              NextCall(task) /\ GetTemplates(task, filters, db_connection)
       /\ UNCHANGED notCacheVars
    \/ /\ \E task \in Tasks, fails \in BOOLEAN : DbFetch(task, fails)
       /\ UNCHANGED notCacheVars
    \/ /\ \E task \in Tasks : ResumeGetTemplates(task)
       /\ UNCHANGED notCacheVars
    \/ /\ \E task \in Tasks : NextCall(task) /\ ClearCache(task)
       /\ UNCHANGED notCacheVars
    \/ /\ \E task \in Tasks, arguments \in CreateArguments :
              NextCall(task) /\ CreateCustomTemplate(task, arguments[1], arguments[2])
       /\ UNCHANGED notCacheVars
    \/ /\ \E task \in Tasks, fails \in BOOLEAN : DbInsert(task, fails)
       /\ UNCHANGED notCacheVars
    \/ /\ \E task \in Tasks : ResumeCreateCustomTemplate(task)
       /\ UNCHANGED notCacheVars
    \/ /\ tm_now < MaxTicks * cache_ttl
       /\ Tick(cache_ttl)
       /\ UNCHANGED notCacheVars

SpecLookup == InitLoaded /\ [][NextLookup]_vars

-----------------------------------------------------------------------------
(* Claims *)

\* C1: for every tuple of partial mappings passed to the fuser, empty ones
\* and ones with values outside [0, 1] included, the returned signature has
\* every one of the 14 canonical dimensions, each with a value in [0.0, 1.0].
C1_SignatureCompleteAndBounded ==
    fuse_done =>
        /\ DOMAIN voice_signature = Dimensions
        /\ Cardinality(Dimensions) = 14
        /\ \A d \in Dimensions : voice_signature[d] >= 0 /\ voice_signature[d] <= Scale

\* The fuser was given an empty mapping and a value above 1, and clamped it.
C1_Witness ==
    /\ fuse_done
    /\ Len(analyses) = 2
    /\ analyses[1] = EmptyDict
    /\ "formality_level" \in DOMAIN analyses[2]
    /\ analyses[2].formality_level > Scale
    /\ voice_signature.formality_level = Scale

\* C2: whenever the combined text is shorter than the minimum length (the
\* empty text included), analyze_voice reports the insufficient input to its
\* caller and has run no extractor, no AI estimator, no fusion and no
\* confidence scoring in that call.
C2_InsufficientInputStops ==
    (full_text.type = "str" /\ TextLen(full_text.val) < min_transcription_length) =>
        /\ av_pc = "done"
        /\ av_result = Raised("InsufficientText")
        /\ av_steps = << "combine_transcriptions" >>
        /\ av_partial = <<>>
        /\ av_signature = EmptyDict

\* A call whose turns combine to the empty text was refused.
C2_Witness ==
    /\ Len(conversation_data) = 2
    /\ full_text = Str(<<>>)
    /\ av_result = Raised("InsufficientText")

\* C9: for a fixed signature and a <= b, c <= d, the confidence score of
\* (a, c) is at most that of (b, d).
C9_ConfidenceMonotone ==
    cs_done =>
        /\ cs_lo.score.den = cs_hi.score.den
        /\ cs_lo.score.num <= cs_hi.score.num

\* Both inputs grew and the score grew with them.
C9_Witness ==
    /\ cs_done
    /\ cs_lo.text_length < cs_hi.text_length
    /\ cs_lo.turns < cs_hi.turns
    /\ cs_lo.score.num < cs_hi.score.num

\* C3: if the primary generation call fails or returns empty content, the
\* request is fatal: generate_content raises, returns no result, and makes no
\* variation call and no post-processing.
C3_PrimaryFailureFatal ==
    (/\ gc_pc = "done"
     /\ Len(gc_responses) >= 1
     /\ (gc_responses[1].type # "str" \/ gc_responses[1].val = <<>>)) =>
        /\ gc_result.kind = "raised"
        /\ Len(gc_calls) = 1
        /\ \A i \in 1..Len(gc_steps) : gc_steps[i] # "optimize_content"

\* C4: when the primary call succeeds and N variations are requested, at most
\* N follow-up calls are made, N being bounded to 0..5; failed follow-up calls
\* are skipped without failing the request; the variations returned are the
\* outputs of the successful follow-up calls in call order.
C4_VariationsBounded ==
    (/\ gc_pc = "done"
     /\ Len(gc_responses) >= 1
     /\ gc_responses[1].type = "str"
     /\ generate_variations_requested(gc_request)) =>
        LET follow_ups == Tail(gc_responses)
            successes == SelectSeq(follow_ups, LAMBDA r : r.type = "str")
        IN  /\ Len(gc_calls) - 1 <= Max(0, requested_max_variations(gc_request))
            /\ Len(gc_calls) - 1 <= 5
            /\ gc_result.kind = "returned"
            /\ gc_result.value.variations =
                   [ i \in 1..Len(successes) |-> strip(successes[i].val) ]

\* the item's own call failed: it raised, or was cancelled
C5_ItemFailed(i) == batch_results[i] \in { "raised", "cancelled" }

\* what an entry says of its item, and what the entry of item i says
C5_EntryItem(e) == IF batch_kind = "generate" THEN e.request_index ELSE e.audio_url
C5_Item(i) == IF batch_kind = "generate" THEN i - 1 ELSE batch_requests[i]

\* C5: for every batch of at most 10 items and every pattern of per-item
\* success and failure, the batch operation returns a partition: each item
\* appears exactly once, in failed exactly when its own call failed and in
\* successful otherwise, and total_processed is the batch size.  Items given
\* the same url have the same entry, and as many entries as they are.
C5_BatchPartition ==
    (/\ batch_pc = "done"
     /\ Len(batch_requests) <= max_batch_size
     /\ ~(batch_kind = "generate" /\ request_keys_missing(batch_requests))) =>
        /\ batch_result.kind = "returned"
        /\ LET r == batch_result.value
               Times(list, i) ==
                   Cardinality({ k \in 1..Len(list) : C5_EntryItem(list[k]) = C5_Item(i) })
               Same(i) == { j \in 1..Len(batch_requests) : C5_Item(j) = C5_Item(i) }
           IN  /\ r.total_processed = Len(batch_requests)
               /\ Len(r.successful) + Len(r.failed) = Len(batch_requests)
               /\ \A i \in 1..Len(batch_requests) :
                     /\ Times(r.failed, i) =
                            Cardinality({ j \in Same(i) : C5_ItemFailed(j) })
                     /\ Times(r.successful, i) =
                            Cardinality({ j \in Same(i) : ~C5_ItemFailed(j) })

\* C6: whenever some template has the requested content type, the selector
\* returns a template of that content type.
C6_TemplateContentTypeMatches ==
    (/\ tpl_done
     /\ \E i \in 1..Len(default_templates) :
           default_templates[i].content_type = tpl_content_type) =>
        tpl_result.content_type = tpl_content_type

\* An article was asked for a storyteller's signature, which the post
\* templates score highest, and the article template was returned.
C6_Witness ==
    /\ tpl_done
    /\ tpl_content_type = "article"
    /\ Get(tpl_signature, "storytelling_style", 30) = 80
    /\ tpl_result.id = "thought_leadership_long"

\* C7: for storytelling_style 0.8, authority_tone 0.2,
\* personal_experience_sharing 0.7 and content type "post", a personal_story
\* template scores strictly above every thought_leadership template, and a
\* personal_story template is returned.
C7_StorytellerPrefersPersonalStory ==
    (/\ tpl_done
     /\ tpl_content_type = "post"
     /\ Get(tpl_signature, "storytelling_style", 0) = 80
     /\ Get(tpl_signature, "authority_tone", 100) = 20
     /\ Get(tpl_signature, "personal_experience_sharing", 0) = 70) =>
        /\ tpl_result.use_case = "personal_story"
        /\ \E p \in 1..Len(default_templates) :
              /\ default_templates[p].use_case = "personal_story"
              /\ default_templates[p].content_type = "post"
              /\ \A t \in 1..Len(default_templates) :
                    default_templates[t].use_case = "thought_leadership" =>
                        template_score(default_templates[p], tpl_signature)
                            > template_score(default_templates[t], tpl_signature)

\* The scenario's signature got the Personal Story template, worth 6.0 points.
C7_Witness ==
    /\ tpl_done
    /\ tpl_content_type = "post"
    /\ tpl_signature = [ storytelling_style |-> 80, authority_tone |-> 20,
                         personal_experience_sharing |-> 70 ]
    /\ tpl_result.id = "personal_story"
    /\ template_score(tpl_result, tpl_signature) = 60

\* C8: comparing any signature with itself (an empty one, an all-zero one,
\* one lacking dimensions) gives an overall_similarity of exactly 1.0.
C8_SelfSimilarityOne ==
    (cmp_done /\ cmp_profile1 = cmp_profile2) =>
        /\ cmp_profiles.kind = "returned"
        /\ cmp_profiles.value.overall_similarity = FloatOne
        /\ "overall_similarity" \in DOMAIN cmp_voice
        /\ CosineIsOne(cmp_voice.overall_similarity)

\* C10: hashtag optimization is idempotent: applied to its own output it
\* returns the same content, with the same hashtags.
C10_HashtagsIdempotent ==
    \A i \in 1..(Len(pp_log) - 1) :
        (pp_log[i].op = "optimize_hashtags" /\ pp_log[i + 1].op = "optimize_hashtags") =>
            /\ pp_log[i + 1].after = pp_log[i].after
            /\ existing_hashtags(pp_log[i + 1].after) = existing_hashtags(pp_log[i].after)

\* A content with one hashtag that is also a suggestion got the other
\* suggestions, and the second application added nothing.
C10_Witness ==
    /\ Len(pp_log) = 2
    /\ pp_log[1].op = "optimize_hashtags"
    /\ pp_log[2].op = "optimize_hashtags"
    /\ pp_log[1].before = Tagged1
    /\ pp_industry = "consulting"
    /\ pp_log[1].after # pp_log[1].before
    /\ Len(existing_hashtags(pp_log[2].after)) = 4

\* the content ends with a question: its last character that is not
\* whitespace is a question mark
EndsWithQuestion(content) ==
    rstrip(content) # <<>> /\ rstrip(content)[Len(rstrip(content))] = "?"

\* C11: for a content that already holds 4 hashtags and ends with a question,
\* hashtag optimization and call-to-action insertion each return the content
\* unchanged, for every industry and content_type.
C11_TaggedQuestionUnchanged ==
    \A i \in 1..Len(pp_log) :
        ( /\ pp_log[i].op \in { "optimize_hashtags", "ensure_call_to_action" }
          /\ Len(existing_hashtags(pp_log[i].before)) = 4
          /\ EndsWithQuestion(pp_log[i].before) ) =>
            pp_log[i].after = pp_log[i].before

\* Both steps were applied to a content with 4 hashtags and a trailing
\* question that holds none of the call-to-action keywords.
C11_Witness ==
    /\ Len(pp_log) = 2
    /\ pp_log[1].op = "optimize_hashtags"
    /\ pp_log[2].op = "ensure_call_to_action"
    /\ pp_log[1].before = Tagged4Trailing
    /\ pp_log[2].before = Tagged4Trailing
    /\ pp_content_type = "article"
    /\ pp_industry = "technology"

\* C12: when every mapping handed to the fuser is empty, the signature still
\* has the 14 dimensions, each holding its default value, and the confidence
\* score of that signature is reduced through the completeness term: the
\* completeness factor is below 1 and the score, for any text length and turn
\* count, is at most 1 minus the 0.3-weighted shortfall.
C12_EmptyMappingsGiveDefaults ==
    (fuse_done /\ \A i \in 1..Len(analyses) : analyses[i] = EmptyDict) =>
        /\ voice_signature =
              [ formality_level |-> 50, emotional_expressiveness |-> 30,
                technical_depth |-> 0, storytelling_style |-> 30,
                authority_tone |-> 40, empathy_level |-> 40, humor_usage |-> 10,
                vulnerability_comfort |-> 30, industry_jargon |-> 0,
                communication_pace |-> 50, explanation_style |-> 50,
                question_asking_tendency |-> 20, call_to_action_style |-> 30,
                personal_experience_sharing |-> 40 ]
        /\ actual_dimensions(voice_signature) < expected_dimensions
        /\ \A text_length \in TextLengths, turns \in 0..MaxConfTurns :
              LET score == calculate_confidence_score(voice_signature, text_length, turns)
                  shortfall ==
                      3 * (score.den \div 10) - completeness_term(voice_signature)
              IN  /\ shortfall > 0
                  /\ score.num <= score.den - shortfall

\* The fuser was called with empty mappings only.
C12_Witness ==
    /\ fuse_done
    /\ analyses = << EmptyDict, EmptyDict >>
    /\ DOMAIN voice_signature = Dimensions

\* C13: analyze_voice raises to its caller only for insufficient text: for
\* every conversation input, a list with zero turns and turns without
\* metadata or transcription included, no other error escapes.
C13_OnlyInsufficientInputEscapes ==
    (av_pc = "done" /\ av_result.kind = "raised") =>
        av_result.error = "InsufficientText"

\* the analyzers in the order analyze_voice calls them (lines 72-75)
AnalyzerOrder == << "linguistic", "style", "emotional", "ai" >>

\* C14: for a text at or above the minimum length, whatever subset of the
\* four analyzers fails or is unavailable, each failing analyzer yields the
\* empty mapping, no failure is surfaced, and the call returns a complete
\* signature with a confidence score in [0, 1].
C14_AnalysisDegrades ==
    (full_text.type = "str" /\ TextLen(full_text.val) >= min_transcription_length) =>
        /\ \A i \in 1..Len(av_partial) :
              AnalyzerOrder[i] \in av_failed => av_partial[i] = EmptyDict
        /\ av_pc = "done" =>
              /\ av_result.kind = "returned"
              /\ Len(av_partial) = 4
              /\ DOMAIN av_result.voice_signature = Dimensions
              /\ \A d \in Dimensions :
                    /\ av_result.voice_signature[d] >= 0
                    /\ av_result.voice_signature[d] <= Scale
              /\ av_result.confidence_score.num >= 0
              /\ av_result.confidence_score.num <= av_result.confidence_score.den

\* All four analyzers failed and the call returned all the same.
C14_Witness ==
    /\ av_pc = "done"
    /\ av_failed = { "linguistic", "style", "emotional", "ai" }
    /\ nlp /\ av_client
    /\ av_result.kind = "returned"

\* C15: after any sequence of fuse, apply_industry_adjustments and
\* update_voice_signature operations, with arbitrary new scores merged in,
\* every value of the profile's signature lies in [0, 1].
C15_ProfileSignatureBounded ==
    \A dimension \in DOMAIN vp_voice_signature :
        /\ vp_voice_signature[dimension] >= 0
        /\ vp_voice_signature[dimension] <= ProfileScale

\* The weighted sum of C16 for signature sig, text length a and turn count c,
\* as a multiple of 1 / den: den / 10000 is a 1000th of the weight unit 0.1,
\* den / 50 a fifth of it, den / 140 a 14th of it.  The variance is the sample
\* variance v with n * (n - 1) * v = sum over the scores x of
\* (n * x - sum of the scores)^2 / n, taken as 0 for fewer than two scores.
C16_WeightedSum(sig, a, c, den) ==
    LET n == Cardinality(DOMAIN sig)
        total == SumOver(DOMAIN sig, sig)
        squares ==
            SumOver(DOMAIN sig,
                    [ k \in DOMAIN sig |-> (n * sig[k] - total) * (n * sig[k] - total) ])
        positive == Cardinality({ k \in DOMAIN sig : sig[k] > 0 })
        \* den * variance
        den_variance ==
            IF n > 1 THEN ((den \div (n * (n - 1) * Scale * Scale)) * squares) \div n
            ELSE 0
        half == den \div 2
        rest == den - den_variance
    IN    3 * (den \div 10000) * (IF a < 1000 THEN a ELSE 1000)
        + 2 * (den \div 50) * (IF c < 5 THEN c ELSE 5)
        + 3 * (den \div 140) * positive
        + (2 * (IF rest > half THEN rest ELSE half)) \div 10

\* C16: for every signature, text length and turn count the confidence score
\* is the clamp to [0, 1] of 0.3 * min(text_length / 1000, 1)
\* + 0.2 * min(turn_count / 5, 1) + 0.3 * (dimensions with value > 0) / 14
\* + 0.2 * max(0.5, 1 - variance of the scores), and so lies in [0, 1].
C16_ConfidenceFormula ==
    cs_done =>
        \A r \in { cs_lo, cs_hi } :
            LET sum == C16_WeightedSum(cs_sig, r.text_length, r.turns, r.score.den)
            IN  /\ r.score.den > 0
                /\ r.score.num =
                      (IF sum < 0 THEN 0 ELSE IF sum > r.score.den THEN r.score.den ELSE sum)
                /\ r.score.num >= 0
                /\ r.score.num <= r.score.den

\* A fused signature with two scores at 0 and a positive variance, scored
\* for a text below the length cap and turn counts below and above the cap.
C16_Witness ==
    /\ cs_done
    /\ Cardinality(DOMAIN cs_sig) = 14
    /\ Cardinality({ k \in DOMAIN cs_sig : cs_sig[k] > 0 }) = 12
    /\ cs_lo.text_length = 500
    /\ cs_lo.turns = 3
    /\ cs_hi.turns = 6
    /\ cs_lo.score.num > 0
    /\ cs_lo.score.num < cs_hi.score.num
    /\ cs_hi.score.num < cs_hi.score.den

\* 1 - |expected - actual|, in hundredths
C17_SubScore(expected, actual) ==
    IF expected > actual THEN Scale - (expected - actual) ELSE Scale - (actual - expected)

\* C17: for every content and every signature the voice match score is the
\* average of the formality, storytelling and personal sub-scores, each
\* 1 - |expected - actual_normalized|, and lies in [0, 1].  The normalized
\* values are the indicator counts over 5, 10 and 20, capped at 1; formality
\* is 1 minus the casual count over 5, floored at 0, unless the formal
\* indicators outnumber the casual ones.
C17_VoiceMatchIsAverage ==
    vm_done =>
        LET formal ==
                CountWords(vm_content,
                           { "furthermore", "therefore", "consequently", "moreover" })
            casual ==
                CountWords(vm_content, { "btw", "really", "pretty", "super", "totally" })
            story ==
                CountWords(vm_content,
                           { "when", "then", "after", "experience", "remember", "time" })
            personal == CountWords(vm_content, { "i", "my", "me", "we", "our" })
            formality_actual ==
                IF formal > casual
                THEN (IF formal >= 5 THEN Scale ELSE 20 * formal)
                ELSE (IF casual >= 5 THEN 0 ELSE Scale - 20 * casual)
            story_actual == IF story >= 10 THEN Scale ELSE 10 * story
            personal_actual == IF personal >= 20 THEN Scale ELSE 5 * personal
            formality_sub ==
                C17_SubScore(Get(vm_voice_signature, "formality_level", 50),
                             formality_actual)
            story_sub ==
                C17_SubScore(Get(vm_voice_signature, "storytelling_style", 30),
                             story_actual)
            personal_sub ==
                C17_SubScore(Get(vm_voice_signature, "personal_experience_sharing", 40),
                             personal_actual)
        IN  /\ vm_score.den > 0
            /\ 3 * Scale * vm_score.num
                  = (formality_sub + story_sub + personal_sub) * vm_score.den
            /\ \A sub \in { formality_sub, story_sub, personal_sub } :
                  sub >= 0 /\ sub <= Scale
            /\ vm_score.num >= 0
            /\ vm_score.num <= vm_score.den

\* some mapping of the tuple as has the key
C18_Present(as, key) == \E i \in 1..Len(as) : key \in DOMAIN as[i]

\* the value of key in the last mapping of as that has it
C18_Last(as, key) ==
    LET i == CHOOSE j \in 1..Len(as) :
                 /\ key \in DOMAIN as[j]
                 /\ \A k \in (j + 1)..Len(as) : key \notin DOMAIN as[k]
    IN  as[i][key]

\* the constant defaults of lines 373-388, in hundredths
C18_Constant ==
    [ formality_level |-> 50, emotional_expressiveness |-> 30, technical_depth |-> 0,
      storytelling_style |-> 30, authority_tone |-> 40, empathy_level |-> 40,
      humor_usage |-> 10, vulnerability_comfort |-> 30, industry_jargon |-> 0,
      communication_pace |-> 50, explanation_style |-> 50,
      question_asking_tendency |-> 20, call_to_action_style |-> 30,
      personal_experience_sharing |-> 40 ]

\* the value the fuser gives dimension d when the dimensions of derived
\* take their default from another signal, before the clamp
C18_Value(as, d, derived) ==
    IF C18_Present(as, d) THEN C18_Last(as, d)
    ELSE IF d \in DOMAIN derived /\ C18_Present(as, derived[d].signal)
         THEN (C18_Last(as, derived[d].signal) * derived[d].num) \div derived[d].den
    ELSE C18_Constant[d]

C18_Fused(derived) ==
    fuse_done =>
        /\ DOMAIN voice_signature = Dimensions
        /\ \A d \in Dimensions :
              LET value == C18_Value(analyses, d, derived)
              IN  voice_signature[d] =
                      (IF value < 0 THEN 0 ELSE IF value > Scale THEN Scale ELSE value)

\* C18 as stated: the fuser merges left to right, later mappings overwriting
\* earlier ones, uses the merged value of a dimension if present and its
\* default otherwise, and the default is a constant except for exactly two
\* dimensions: technical_depth (technical_density x 2) and industry_jargon
\* (entity_density x 3).
C18_TwoDerivedDefaults ==
    C18_Fused([ technical_depth |-> [ signal |-> "technical_density", num |-> 2, den |-> 1 ],
                industry_jargon |-> [ signal |-> "entity_density", num |-> 3, den |-> 1 ] ])

\* C18 amended: the same merge and defaults, with three dimensions whose
\* default is derived from another signal when it exists: technical_depth
\* (technical_density x 2), industry_jargon (entity_density x 3) and
\* explanation_style (avg_sentence_length / 30).
C18_ThreeDerivedDefaults ==
    C18_Fused([ technical_depth |-> [ signal |-> "technical_density", num |-> 2, den |-> 1 ],
                industry_jargon |-> [ signal |-> "entity_density", num |-> 3, den |-> 1 ],
                explanation_style |->
                    [ signal |-> "avg_sentence_length", num |-> 1, den |-> 30 ] ])

\* Two mappings with the three signals, the later one overwriting the earlier:
\* the three derived defaults come from the later values.
C18_Witness ==
    /\ fuse_done
    /\ Len(analyses) = 2
    /\ DOMAIN analyses[1] = { "technical_density", "entity_density", "avg_sentence_length" }
    /\ DOMAIN analyses[2] = DOMAIN analyses[1]
    /\ analyses[1]["technical_density"] = 90
    /\ analyses[2]["technical_density"] = 30
    /\ voice_signature["technical_depth"] = 60
    /\ voice_signature["industry_jargon"] = 90
    /\ voice_signature["explanation_style"] = 1
    /\ voice_signature["formality_level"] = 50

RECURSIVE C19_Gcd(_, _)
C19_Gcd(a, b) == IF b = 0 THEN a ELSE C19_Gcd(b, a % b)

\* a / b = c / d for naturals with b > 0 and d > 0, without the cross products
C19_SameRatio(a, b, c, d) ==
    /\ a \div C19_Gcd(a, b) = c \div C19_Gcd(c, d)
    /\ b \div C19_Gcd(a, b) = d \div C19_Gcd(c, d)

\* the float x is num / den, to within 2^-50 (the floats of [0, 1] are
\* 2^-53 or less apart)
C19_IsFloatOf(x, num, den) ==
    LET exact == BigDiv(BigTimes(FloatOne.digits, IF num < 0 THEN -num ELSE num), den).quotient
        apart == FloatAbs(FloatSub(x, [ negative |-> num < 0 /\ exact # <<>>,
                                        digits |-> exact ])).digits
    IN  BigLess(apart, BigShiftLeft(<< 1 >>, FloatUnitBits - 50))

\* the dimensions of either signature
C19_Union == DOMAIN cmp_profile1 \cup DOMAIN cmp_profile2

\* 1 - |scoreA - scoreB| with a missing score read as 0.0, in hundredths
C19_Similarity(d) ==
    LET a == IF d \in DOMAIN cmp_profile1 THEN cmp_profile1[d] ELSE 0
        b == IF d \in DOMAIN cmp_profile2 THEN cmp_profile2[d] ELSE 0
    IN  IF a > b THEN Scale - (a - b) ELSE Scale - (b - a)

\* the sum of the per-dimension similarities over the union
C19_Total == SumOver(C19_Union, [ d \in C19_Union |-> C19_Similarity(d) ])

\* the statement for VoiceProfileComparison.compare_profiles
C19_CompareProfilesOverUnion ==
    (cmp_done /\ C19_Union # {}) =>
        /\ cmp_profiles.kind = "returned"
        /\ DOMAIN cmp_profiles.value.dimension_similarities = C19_Union
        /\ \A d \in C19_Union :
              C19_IsFloatOf(cmp_profiles.value.dimension_similarities[d],
                            C19_Similarity(d), Scale)
        /\ C19_IsFloatOf(cmp_profiles.value.overall_similarity,
                         C19_Total, Scale * Cardinality(C19_Union))

\* the statement for VoiceAnalyzer.compare_voice_profiles, whose
\* overall_similarity is the float next to c = dot / sqrt(norm1_sq *
\* norm2_sq), which is not negative: c is the mean when c^2 is the mean's
\* square
C19_CompareVoiceProfilesOverUnion ==
    (cmp_done /\ C19_Union # {}) =>
        /\ "overall_similarity" \in DOMAIN cmp_voice
        /\ DOMAIN cmp_voice.dimension_comparison = C19_Union
        /\ \A d \in C19_Union :
              C19_IsFloatOf(cmp_voice.dimension_comparison[d].similarity,
                            C19_Similarity(d), Scale)
        /\ cmp_voice.overall_similarity.norm1_sq * cmp_voice.overall_similarity.norm2_sq > 0
        /\ C19_SameRatio(
              cmp_voice.overall_similarity.dot * cmp_voice.overall_similarity.dot,
              cmp_voice.overall_similarity.norm1_sq * cmp_voice.overall_similarity.norm2_sq,
              C19_Total * C19_Total,
              (Scale * Cardinality(C19_Union)) * (Scale * Cardinality(C19_Union)))

\* C19: profile comparison ranges over the union of the dimensions of either
\* signature, reads a dimension missing from one signature as 0.0 instead of
\* excluding it, sets each per-dimension similarity to 1 - |scoreA - scoreB|
\* and overall_similarity to the arithmetic mean of these.
C19_ComparisonOverUnion ==
    C19_CompareProfilesOverUnion /\ C19_CompareVoiceProfilesOverUnion

\* the positions in the template list of the templates of tpl_content_type
C20_Matching ==
    { i \in 1..Len(default_templates) :
        default_templates[i].content_type = tpl_content_type }

\* C20: among the templates of the requested content type the selector
\* returns one of the highest total score, and of several templates sharing
\* the highest score it returns the one listed first.
C20_HighestScoreFirstListed ==
    (tpl_done /\ C20_Matching # {}) =>
        \E i \in C20_Matching :
            /\ tpl_result = default_templates[i]
            /\ \A k \in C20_Matching :
                  /\ template_score(default_templates[k], tpl_signature)
                        <= template_score(default_templates[i], tpl_signature)
                  /\ k < i =>
                        template_score(default_templates[k], tpl_signature)
                            < template_score(default_templates[i], tpl_signature)

\* The first two post templates share the highest score, 2.5 points, above the
\* base score of the others, and the one listed first was returned.
C20_Witness ==
    /\ tpl_done
    /\ tpl_content_type = "post"
    /\ \E i, j \in C20_Matching :
          /\ i < j
          /\ tpl_result = default_templates[i]
          /\ template_score(default_templates[i], tpl_signature) = 25
          /\ template_score(default_templates[j], tpl_signature) = 25
          /\ \A k \in C20_Matching :
                template_score(default_templates[k], tpl_signature) <= 25

\* C21: for every signature, the empty one included, and every content type,
\* one no template carries included, the selector returns a template, and it
\* returns the first default template when no template has the content type.
C21_SelectionNeverFails ==
    tpl_done =>
        /\ \E i \in 1..Len(default_templates) : tpl_result = default_templates[i]
        /\ (\A i \in 1..Len(default_templates) :
               default_templates[i].content_type # tpl_content_type) =>
              tpl_result = default_templates[1]

\* A carousel, which no template carries, was asked for a storyteller's
\* signature and the first default template came back.
C21_Witness ==
    /\ tpl_done
    /\ tpl_content_type = "carousel"
    /\ Get(tpl_signature, "storytelling_style", 30) = 80
    /\ Get(tpl_signature, "personal_experience_sharing", 40) = 80
    /\ tpl_result = default_templates[1]
    /\ tpl_result.id = "professional_insight"

\* C22: after hashtag optimization of any content, whatever the number of
\* hashtags it already held, the content holds between 3 and 5 hashtags, and
\* no hashtag that was added is one the content already held.
C22_ThreeToFiveHashtags ==
    \A i \in 1..Len(pp_log) :
        pp_log[i].op = "optimize_hashtags" =>
            /\ Len(existing_hashtags(pp_log[i].after)) >= 3
            /\ Len(existing_hashtags(pp_log[i].after)) <= 5
            /\ \A k \in (Len(existing_hashtags(pp_log[i].before)) + 1)
                            ..Len(existing_hashtags(pp_log[i].after)) :
                  ~InSeq(existing_hashtags(pp_log[i].after)[k],
                         existing_hashtags(pp_log[i].before))

\* C23: within one generate_content request the primary call's temperature is
\* 0.3 + 0.6 * avg(emotional_expressiveness, humor_usage, storytelling_style)
\* clamped to [0.3, 0.9], every follow-up call's temperature is 0.1 above the
\* previous call's, and no temperature leaves [0.3, 0.9]. Temperatures are in
\* thousandths, scores in hundredths: 0.6 * (sum / 3) is 2 * sum thousandths.
C23_ProgressiveTemperatures ==
    \A i \in 1..Len(gc_calls) :
        /\ gc_calls[i].temperature >= 300
        /\ gc_calls[i].temperature <= 900
        /\ i = 1 =>
              LET sig == gc_request.voice_signature
                  sum == Get(sig, "emotional_expressiveness", 30)
                         + Get(sig, "humor_usage", 10)
                         + Get(sig, "storytelling_style", 30)
              IN  gc_calls[1].temperature =
                      (IF 300 + 2 * sum > 900 THEN 900 ELSE 300 + 2 * sum)
        /\ i > 1 => gc_calls[i].temperature = gc_calls[i - 1].temperature + 100

\* C24: the mapping returned by the AI-assisted estimator holds exactly the
\* entries whose provider value was a number, each clamped to [0, 1], the
\* other entries being dropped; on a transport failure, a parse failure or a
\* missing client it is the empty mapping; and the estimator never raises.
C24_OnlyNumericEntriesClamped ==
    Len(av_partial) >= 4 =>
        /\ IF ~av_client \/ av_response.kind # "json"
           THEN av_partial[4] = EmptyDict
           ELSE LET scores == av_response.scores
                IN  /\ DOMAIN av_partial[4] =
                           { k \in DOMAIN scores : scores[k].type = "number" }
                    /\ \A k \in DOMAIN av_partial[4] :
                          av_partial[4][k] =
                              (IF scores[k].val < 0 THEN 0
                               ELSE IF scores[k].val > Scale THEN Scale
                               ELSE scores[k].val)
        /\ av_pc = "done" => av_result.kind = "returned"

\* the latest caching of the key of event i before it, or 0
C25_LastStore(i) ==
    LET stores == { j \in 1..(i - 1) :
                      tm_log[j].ev = "store" /\ tm_log[j].key = tm_log[i].key }
    IN  IF stores = {} THEN 0
        ELSE CHOOSE j \in stores : \A k \in stores : k <= j

\* C25: the cache serves an entry for a key only while the time is strictly
\* before the key's expiry, the time it was cached plus the one-hour
\* time-to-live: every call answered from the cache comes after a caching of
\* its key, less than 3600 seconds later and with no clear_cache in between;
\* and every cached key has an expiry timestamp.
C25_ServedOnlyBeforeExpiry ==
    /\ DOMAIN template_cache \subseteq DOMAIN cache_expiry
    /\ \A i \in 1..Len(tm_log) :
          tm_log[i].ev = "hit" =>
              /\ C25_LastStore(i) # 0
              /\ tm_log[i].now < tm_log[C25_LastStore(i)].now + 3600
              /\ \A k \in C25_LastStore(i)..i : tm_log[k].ev # "clear"

\* A list was cached at time 0, a second call with the same filters was
\* answered from the cache at once, and a third call, made exactly at the
\* expiry, 3600 seconds later, was not.
C25_Witness ==
    /\ Len(tm_log) >= 4
    /\ tm_log[1].ev = "miss" /\ tm_log[1].task = 1
    /\ tm_log[2].ev = "store" /\ tm_log[2].now = 0
    /\ tm_log[3].ev = "hit" /\ tm_log[3].key = tm_log[2].key /\ tm_log[3].now = 0
    /\ tm_log[4].ev = "miss" /\ tm_log[4].key = tm_log[2].key /\ tm_log[4].now = 3600
    /\ tm_tasks[2].result = tm_tasks[1].result

\* the position in the log where the list cached at position s was read:
\* the database's execution of the caching call's query, or the caching
\* itself when the list came from the default templates
C26_ReadAt(s) ==
    LET fetches == { f \in 1..s :
                       /\ tm_log[f].ev \in { "fetch", "fetch_failed" }
                       /\ tm_log[f].task = tm_log[s].task }
    IN  IF fetches = {} THEN s ELSE CHOOSE f \in fetches : TRUE

\* C26: under every interleaving of concurrent get_templates and
\* create_custom_template calls, once create_custom_template has completed,
\* no later get_templates call is answered from a cached list that was read
\* before the new template was inserted.
C26_FreshAfterCreate ==
    \A c \in 1..Len(tm_log), h \in 1..Len(tm_log) :
        (/\ tm_log[c].ev = "created"
         /\ h > c
         /\ tm_log[h].ev = "hit") =>
            \A p \in 1..c, s \in 1..h :
                (/\ tm_log[p].ev = "insert"
                 /\ tm_log[p].task = tm_log[c].task
                 /\ tm_log[s].ev = "store"
                 /\ tm_log[s].key = tm_log[h].key
                 /\ \A k \in (s + 1)..(h - 1) :
                       ~(tm_log[k].ev = "store" /\ tm_log[k].key = tm_log[h].key)) =>
                    C26_ReadAt(s) > p

\* C29: every template returned by get_templates called with a content_type,
\* industry or use_case filter satisfies that filter, whether the list came
\* from the database, from the default templates after a failed query or
\* without a connection, or from the cache.
C29_ReturnedTemplatesSatisfyFilters ==
    \A task \in Tasks :
        (tm_tasks[task].op = "get_templates" /\ tm_tasks[task].pc = "done") =>
            \A i \in 1..Len(tm_tasks[task].result.val) :
                LET template == tm_tasks[task].result.val[i]
                    filters == tm_tasks[task].filters
                IN  /\ filters.content_type # None =>
                          template.content_type = filters.content_type.val
                    /\ filters.industry # None =>
                          filters.industry.val \in template.industry_tags
                    /\ filters.use_case # None =>
                          template.use_case = filters.use_case.val

\* C27: for every content, every content type and every call-to-action that
\* the random choice may select, the output of call-to-action insertion is
\* detected as containing a call-to-action, so that a second application
\* leaves the content unchanged.
C27_CallToActionIdempotent ==
    \A i \in 1..Len(pp_log) :
        pp_log[i].op = "ensure_call_to_action" =>
            /\ has_cta(pp_log[i].after)
            /\ (i < Len(pp_log) /\ pp_log[i + 1].op = "ensure_call_to_action") =>
                  pp_log[i + 1].after = pp_log[i].after

\* the number of question marks of a content
C28_QuestionMarks(content) ==
    Cardinality({ i \in 1..Len(content) : content[i] = "?" })

\* the content ends with one of the call-to-action sentences
C28_EndsWithCallToAction(content) ==
    \E cta \in cta_post \cup cta_story \cup cta_article :
        /\ Len(content) >= Len(cta)
        /\ SubSeq(content, Len(content) - Len(cta) + 1, Len(content)) = cta

\* C28: a content that ends with a question and already holds 3 to 5
\* hashtags leaves the full post-processing pipeline (line breaks, hashtags,
\* call-to-action, formatting) with its question marks intact, no hashtag
\* added and no call-to-action appended.
C28_PipelinePreservesQuestion ==
    \A i \in 1..Len(pp_log) :
        (/\ pp_log[i].op = "optimize_content"
         /\ EndsWithQuestion(pp_log[i].before)
         /\ Len(existing_hashtags(pp_log[i].before)) >= 3
         /\ Len(existing_hashtags(pp_log[i].before)) <= 5) =>
            /\ C28_QuestionMarks(pp_log[i].after) = C28_QuestionMarks(pp_log[i].before)
            /\ existing_hashtags(pp_log[i].after) = existing_hashtags(pp_log[i].before)
            /\ ~C28_EndsWithCallToAction(pp_log[i].after)

\* the five dimensions the prompt of the AI-assisted estimator asks for
C30_Requested ==
    { "formality_level", "technical_depth", "communication_pace", "explanation_style",
      "industry_jargon" }

\* the signature fused from the first three mappings of this analysis and the
\* estimator's mapping for another answer of the provider
C30_FusedWith(response) ==
    create_voice_signature(SubSeq(av_partial, 1, 3) \o << ai_enhanced_analysis(response) >>)

\* C30: two analyses of the same text that differ only in the provider's
\* answer fuse to equal values in the nine dimensions the estimator is not
\* asked for.
C30_OnlyRequestedDimensions ==
    (av_pc = "done" /\ Len(av_partial) = 4 /\ av_client) =>
        \A response \in AiResponses :
            \A d \in Dimensions \ C30_Requested :
                C30_FusedWith(response)[d] = av_signature[d]

=============================================================================
